---- MODULE Spec2Model ----
(***************************************************************************)
(* Checklist execution backend: the committed store, the direct execution  *)
(* routes (checklists.py, vehicles.py, enhanced_checklists.py) and the     *)
(* offline sync batch processor (sync.py) with its SQLAlchemy session.     *)
(***************************************************************************)
EXTENDS Integers, Sequences, FiniteSets, TLC

\* ---------------------------------------------------------------- bounds
MaxRuns == 2          \* stored executions (rows of checklist_ausfuehrungen)
MaxBatch == 3         \* actions in one sync batch
MaxLifecycleBatch == 2 \* actions in one sync batch of starts and completions
MaxResultBatch == 2   \* actions in one sync batch of result submissions
MaxNewChecklists == 1 \* checklists created on top of the seeded ones
MaxResults == 2       \* stored item results (rows of item_ergebnisse)
MaxQueue == 2         \* actions in a sync batch that is received as a whole
MaxNewItems == 1      \* checklist items created on top of the seeded ones
MaxOffset == 64       \* half-days between now and an expiration date
MaxClockStep == 1     \* half-days the clock advances between two readings
MaxDefinitionBatch == 1 \* actions in one sync batch of checklist creations
MaxTermine == 2       \* highest id of a stored TuvTermin
MaxClock == 1         \* half-days the clock advances between requests

\* ------------------------------------------------------- seeded entities
NoValue == "None"

\* benutzer.rolle of the seeded users 1..4
Rolle == <<"benutzer", "organisator", "gruppenleiter", "admin">>
\* the users who act on executions and results
Benutzer == 1..2
\* the users who act on checklists and their items
Bearbeiter == DOMAIN Rolle

\* ChecklistItemTypeEnum
ItemTypes ==
  {"vehicle_info", "rating_1_6", "percentage", "atemschutz", "standard",
   "quantity", "date_check", "status_check"}

\* editable_roles of an item that was stored with the schema's default; the
\* empty set stands for None and for [], which the code treats alike
DefaultRoles == {"organisator", "admin"}

\* fahrzeuge.fahrzeuggruppe_id of the seeded vehicles 1..2
FahrzeugGruppeVon == <<1, 2>>
Fahrzeuge == DOMAIN FahrzeugGruppeVon
FahrzeugGruppen == {1, 2}

EmptyConfig == [k \in {} |-> 0]
\* validation_config of an item that was stored without one (None)
NoConfig == [none |-> TRUE]

SeedChecklisten ==
  << [fahrzeuggruppe_id |-> 1, template |-> FALSE, ersteller_id |-> 2],
     [fahrzeuggruppe_id |-> 2, template |-> TRUE, ersteller_id |-> 2] >>

SeedItems ==
  << [checkliste_id |-> 1, item_type |-> "rating_1_6", validation_config |-> EmptyConfig,
      editable_roles |-> DefaultRoles],
     [checkliste_id |-> 2, item_type |-> "standard", validation_config |-> EmptyConfig,
      editable_roles |-> DefaultRoles] >>

\* -------------------------------------------------------- request inputs
ChecklistIds == 1 .. (Len(SeedChecklisten) + MaxNewChecklists)
FahrzeugIds == 1 .. (Len(FahrzeugGruppeVon) + 1)
RunIds == 1 .. (MaxRuns + 1)
ItemIds == 1 .. (Len(SeedItems) + 1)
StatusVals == {"ok", "fehler", "kaputt"}
KommentarVals == {NoValue, "k"}

VARIABLES
  db,      \* committed store: one sequence of rows per table, id = index
  sess,    \* the session of the sync batch being processed by push_actions,
           \* its counters, and the resources it has reported as successful
  resp,    \* response of the last finished request
  reqs     \* requests in flight that interleave at statement level

vars == <<db, sess, resp, reqs>>

\* ------------------------------------------------------------ the store
Ids(table) == DOMAIN table

\* db.query(ChecklistAusfuehrung).filter(checkliste_id, fahrzeug_id, status == "started")
ActiveRuns(store, c, v) ==
  { r \in Ids(store.ausfuehrungen) :
      /\ store.ausfuehrungen[r].checkliste_id = c
      /\ store.ausfuehrungen[r].fahrzeug_id = v
      /\ store.ausfuehrungen[r].status = "started" }

\* .first() of a query: the row with the lowest id, 0 when there is none
First(S) == IF S = {} THEN 0 ELSE CHOOSE x \in S : \A y \in S : x <= y

\* db.query(ItemErgebnis).filter(ausfuehrung_id, item_id)
ResultRows(store, r, i) ==
  { e \in Ids(store.ergebnisse) :
      /\ store.ergebnisse[e].ausfuehrung_id = r
      /\ store.ergebnisse[e].item_id = i }

\* db.query(ChecklistItem).filter(id == item_id, checkliste_id == c).first()
ItemOfChecklist(store, i, c) ==
  i \in Ids(store.items) /\ store.items[i].checkliste_id = c

\* ChecklistAusfuehrung(checkliste_id, fahrzeug_id, benutzer_id), status default "started"
NewRun(c, v, u) ==
  [checkliste_id |-> c, fahrzeug_id |-> v, benutzer_id |-> u,
   status |-> "started", completed_at |-> NoValue]

\* run.status = "completed"; run.completed_at = datetime.now()
Completed(run) ==
  [run EXCEPT !.status = "completed", !.completed_at = "now"]

NoSession == [active |-> FALSE]

Idle == [pc |-> "idle"]

Reply(op, code, detail, id) ==
  [op |-> op, code |-> code, detail |-> detail, id |-> id]

Init ==
  /\ db = [ausfuehrungen |-> <<>>, ergebnisse |-> <<>>,
           checklisten |-> SeedChecklisten, items |-> SeedItems]
  /\ sess = NoSession
  /\ resp = Reply("none", 0, "", 0)
  /\ reqs = [i \in 1..2 |-> Idle]

\* ------------------------------------------- checklists.py: run routes
\* run.benutzer_id != current_user.id and current_user.rolle not in [...]
MayEditRun(run, u) ==
  run.benutzer_id = u \/ Rolle[u] \in {"organisator", "admin"}

\* the handler without its existing_run query
start_checklist_run_check_NoActiveQuery(store, c, v) ==
  IF c \notin Ids(store.checklisten)
    THEN Reply("start", 404, "Checkliste nicht gefunden", 0)
  ELSE IF v \notin Fahrzeuge
    THEN Reply("start", 400, "Fahrzeug nicht gefunden", 0)
  ELSE Reply("start", 0, "", 0)

\* start_checklist_run up to and including the existing_run query:
\* the rejection, or code 0 when the handler goes on to insert
start_checklist_run_check(store, c, v) ==
  IF c \notin Ids(store.checklisten)
    THEN Reply("start", 404, "Checkliste nicht gefunden", 0)
  ELSE IF v \notin Fahrzeuge
    THEN Reply("start", 400, "Fahrzeug nicht gefunden", 0)
  ELSE IF ActiveRuns(store, c, v) # {}
    THEN Reply("start", 400, "Aktive Durchfuehrung fuer diese Kombination bereits vorhanden", 0)
  ELSE Reply("start", 0, "", 0)

\* db.add(db_run); db.commit()
InsertRun(store, c, v, u) ==
  [store EXCEPT !.ausfuehrungen = Append(@, NewRun(c, v, u))]

\* checklists.py: POST /checklists/{checklist_id}/runs
start_checklist_run(c, v, u) ==
  /\ ~sess.active
  /\ UNCHANGED <<sess, reqs>>
  /\ LET q == start_checklist_run_check(db, c, v) IN
     IF q.code # 0
       THEN /\ resp' = q
            /\ UNCHANGED db
       ELSE /\ Len(db.ausfuehrungen) < MaxRuns
            /\ db' = InsertRun(db, c, v, u)
            /\ resp' = Reply("start", 201, "", Len(db.ausfuehrungen) + 1)

\* vehicles.py: POST /vehicles/{v}/checklists/{c}/start
start_checklist_for_vehicle(v, c, u) ==
  /\ ~sess.active
  /\ UNCHANGED <<sess, reqs>>
  /\ IF v \notin Fahrzeuge
       THEN /\ resp' = Reply("start_for_vehicle", 404, "Fahrzeug nicht gefunden", 0)
            /\ UNCHANGED db
     ELSE IF ~(/\ c \in Ids(db.checklisten)
               /\ db.checklisten[c].fahrzeuggruppe_id = FahrzeugGruppeVon[v]
               /\ db.checklisten[c].template = FALSE)
       THEN /\ resp' = Reply("start_for_vehicle", 404, "Checkliste nicht verfuegbar", 0)
            /\ UNCHANGED db
     ELSE IF ActiveRuns(db, c, v) # {}
       THEN /\ resp' = Reply("start_for_vehicle", 400, "Aktive Durchfuehrung fuer diese Kombination bereits vorhanden", 0)
            /\ UNCHANGED db
     ELSE /\ Len(db.ausfuehrungen) < MaxRuns
          /\ db' = InsertRun(db, c, v, u)
          /\ resp' = Reply("start_for_vehicle", 201, "", Len(db.ausfuehrungen) + 1)

\* ItemErgebnis(ausfuehrung_id=run_id, **result_data.model_dump())
NewResult(r, p) ==
  [ausfuehrung_id |-> r, item_id |-> p.item_id, status |-> p.status,
   kommentar |-> p.kommentar, wert |-> p.wert]

\* record_item_result up to and including the existing_result query:
\* the rejection, or code 0 with the id of the existing row (0 for none)
record_item_result_check(store, r, p, u) ==
  IF r \notin Ids(store.ausfuehrungen)
    THEN Reply("record", 404, "Durchfuehrung nicht gefunden", 0)
  ELSE IF store.ausfuehrungen[r].status # "started"
    THEN Reply("record", 400, "Durchfuehrung ist nicht aktiv", 0)
  ELSE IF ~MayEditRun(store.ausfuehrungen[r], u)
    THEN Reply("record", 403, "Keine Berechtigung", 0)
  ELSE IF ~ItemOfChecklist(store, p.item_id, store.ausfuehrungen[r].checkliste_id)
    THEN Reply("record", 400, "Item gehoert nicht zu dieser Checkliste", 0)
  ELSE IF p.status \notin {"ok", "fehler", "nicht_pruefbar"}
    THEN Reply("record", 400, "Ungueltiger Status", 0)
  ELSE Reply("record", 0, "", First(ResultRows(store, r, p.item_id)))

\* a handler that inserts whether or not it found a row
record_item_result_write_AlwaysInsert(store, existing, loaded, r, p) ==
  [store EXCEPT !.ergebnisse = Append(@, NewResult(r, p))]

\* the two branches after the query and the commit: an UPDATE of the
\* columns whose new value differs from the row as it was loaded, or an INSERT
record_item_result_write(store, existing, loaded, r, p) ==
  IF existing # 0
    THEN [store EXCEPT
            !.ergebnisse[existing].status =
                IF p.status # loaded.status THEN p.status ELSE @,
            !.ergebnisse[existing].kommentar =
                IF p.kommentar # loaded.kommentar THEN p.kommentar ELSE @]
    ELSE [store EXCEPT !.ergebnisse = Append(@, NewResult(r, p))]

\* a handler that writes the row before it looks at the submitted status
record_item_result_StatusCheckAfterWrite(r, p, u) ==
  /\ ~sess.active
  /\ UNCHANGED <<sess, reqs>>
  /\ LET q == record_item_result_check(db, r, p, u)
         existing == First(ResultRows(db, r, p.item_id))
     IN
     IF q.code # 0 /\ q.detail # "Ungueltiger Status"
       THEN /\ resp' = q
            /\ UNCHANGED db
       ELSE /\ existing # 0 \/ Len(db.ergebnisse) < MaxResults
            /\ db' = record_item_result_write(db, existing,
                         IF existing # 0 THEN db.ergebnisse[existing] ELSE <<>>, r, p)
            /\ resp' = IF q.code # 0 THEN q
                       ELSE Reply("record", 201, "",
                                  IF existing # 0 THEN existing
                                  ELSE Len(db.ergebnisse) + 1)

\* checklists.py: POST /checklists/runs/{run_id}/items
record_item_result(r, p, u) ==
  /\ ~sess.active
  /\ UNCHANGED <<sess, reqs>>
  /\ LET q == record_item_result_check(db, r, p, u) IN
     IF q.code # 0
       THEN /\ resp' = q
            /\ UNCHANGED db
       ELSE /\ q.id # 0 \/ Len(db.ergebnisse) < MaxResults
            /\ db' = record_item_result_write(db, q.id,
                         IF q.id # 0 THEN db.ergebnisse[q.id] ELSE <<>>, r, p)
            /\ resp' = Reply("record", 201, "",
                             IF q.id # 0 THEN q.id ELSE Len(db.ergebnisse) + 1)

\* checklists.py: PUT /checklists/runs/{run_id}/complete
\* a handler that completes the run for whoever asks
complete_checklist_run_NoPermissionCheck(r, u) ==
  /\ ~sess.active
  /\ UNCHANGED <<sess, reqs>>
  /\ IF r \notin Ids(db.ausfuehrungen)
       THEN /\ resp' = Reply("complete", 404, "Durchfuehrung nicht gefunden", 0)
            /\ UNCHANGED db
     ELSE IF db.ausfuehrungen[r].status # "started"
       THEN /\ resp' = Reply("complete", 400, "Durchfuehrung ist nicht aktiv", 0)
            /\ UNCHANGED db
     ELSE /\ db' = [db EXCEPT !.ausfuehrungen[r] = Completed(@)]
          /\ resp' = Reply("complete", 200, "", r)

complete_checklist_run(r, u) ==
  /\ ~sess.active
  /\ UNCHANGED <<sess, reqs>>
  /\ IF r \notin Ids(db.ausfuehrungen)
       THEN /\ resp' = Reply("complete", 404, "Durchfuehrung nicht gefunden", 0)
            /\ UNCHANGED db
     ELSE IF ~MayEditRun(db.ausfuehrungen[r], u)
       THEN /\ resp' = Reply("complete", 403, "Keine Berechtigung", 0)
            /\ UNCHANGED db
     ELSE IF db.ausfuehrungen[r].status # "started"
       THEN /\ resp' = Reply("complete", 400, "Durchfuehrung ist nicht aktiv", 0)
            /\ UNCHANGED db
     ELSE /\ db' = [db EXCEPT !.ausfuehrungen[r] = Completed(@)]
          /\ resp' = Reply("complete", 200, "", r)

\* ------------------------------------ enhanced_checklists.py: results
\* validation_config.get(key, default)
ConfigGet(cfg, key, default) ==
  IF key \in DOMAIN cfg THEN cfg[key] ELSE default

\* a field of ItemErgebnisCreate that the request may leave at its default None
PayloadGet(p, key) ==
  IF key \in DOMAIN p THEN p[key] ELSE NoValue

\* the values ItemErgebnisBase.wert can hold (Union[int, float, str, Dict]);
\* a float is kept as the number of its halves, a str as its characters,
\* a dict as the set of its keys
IntWert(n) == [kind |-> "int", n |-> n]
FloatWert(halves) == [kind |-> "float", halves |-> halves]
StrWert(text) == [kind |-> "str", text |-> text]
DictWert(keys) == [kind |-> "dict", keys |-> keys]

DigitChars == <<"0", "1", "2", "3", "4", "5", "6", "7", "8", "9">>

IsDigits(t) ==
  t # <<>> /\ \A k \in DOMAIN t : \E d \in DOMAIN DigitChars : DigitChars[d] = t[k]

RECURSIVE DigitsValue(_)
DigitsValue(t) ==
  IF t = <<>> THEN 0
  ELSE 10 * DigitsValue(SubSeq(t, 1, Len(t) - 1))
         + (CHOOSE d \in DOMAIN DigitChars : DigitChars[d] = t[Len(t)]) - 1

\* str.strip() as int() and float() apply it to their argument
RECURSIVE Strip(_)
Strip(t) ==
  IF t = <<>> THEN t
  ELSE IF t[1] = " " THEN Strip(Tail(t))
  ELSE IF t[Len(t)] = " " THEN Strip(SubSeq(t, 1, Len(t) - 1))
  ELSE t

Signed(t) == t # <<>> /\ t[1] \in {"-", "+"}
Unsigned(t) == IF Signed(t) THEN Tail(t) ELSE t
SignOf(t) == IF t # <<>> /\ t[1] = "-" THEN -1 ELSE 1

Raised(exception) == [ok |-> FALSE, error |-> exception]
Returned(n) == [ok |-> TRUE, n |-> n]

\* int(wert): a float is truncated towards zero, a str must be an optionally
\* signed run of digits, a dict raises TypeError
PyInt(w) ==
  IF w.kind = "int" THEN Returned(w.n)
  ELSE IF w.kind = "float"
    THEN Returned(IF w.halves >= 0 THEN w.halves \div 2 ELSE -((-w.halves) \div 2))
  ELSE IF w.kind = "str"
    THEN LET t == Strip(w.text) IN
         IF IsDigits(Unsigned(t))
           THEN Returned(SignOf(t) * DigitsValue(Unsigned(t)))
           ELSE Raised("ValueError")
  ELSE Raised("TypeError")

\* position of the decimal point of t, 0 if it has none
PointAt(t) ==
  IF \E k \in DOMAIN t : t[k] = "." THEN CHOOSE k \in DOMAIN t : t[k] = "." ELSE 0

\* float(wert) in halves; the fractions of the texts that are submitted
\* are ".0" and ".5"
PyFloat(w) ==
  IF w.kind = "int" THEN Returned(2 * w.n)
  ELSE IF w.kind = "float" THEN Returned(w.halves)
  ELSE IF w.kind = "str"
    THEN LET t == Strip(w.text)
             u == Unsigned(t)
             dot == PointAt(u)
             whole == IF dot = 0 THEN u ELSE SubSeq(u, 1, dot - 1)
             frac == IF dot = 0 THEN <<"0">> ELSE SubSeq(u, dot + 1, Len(u))
         IN IF IsDigits(whole) /\ frac \in {<<"0">>, <<"5">>}
              THEN Returned(SignOf(t) * (2 * DigitsValue(whole)
                                           + IF frac = <<"5">> THEN 1 ELSE 0))
              ELSE Raised("ValueError")
  ELSE Raised("TypeError")

Range(seq) == { seq[k] : k \in DOMAIN seq }

\* The branches of validate_item_result: "" stands for None (accepted),
\* otherwise the rejection text.  p.wert is <<>> for None and <<w>> for a
\* value w; ValueError and TypeError are caught by the except clause.

\* an upper bound that is exclusive
validate_rating_1_6_ExclusiveMax(cfg, p) ==
  IF p.wert = <<>> THEN ""
  ELSE LET rating == PyInt(p.wert[1]) IN
       IF ~rating.ok THEN "Ungueltiger Wert"
       ELSE IF ~(ConfigGet(cfg, "min_value", 1) <= rating.n
                 /\ rating.n < ConfigGet(cfg, "max_value", 6))
         THEN "Bewertung ausserhalb des Bereichs" ELSE ""

validate_rating_1_6(cfg, p) ==
  IF p.wert = <<>> THEN ""
  ELSE LET rating == PyInt(p.wert[1]) IN
       IF ~rating.ok THEN "Ungueltiger Wert"
       ELSE IF ~(ConfigGet(cfg, "min_value", 1) <= rating.n
                 /\ rating.n <= ConfigGet(cfg, "max_value", 6))
         THEN "Bewertung ausserhalb des Bereichs" ELSE ""

\* a percentage that is truncated to an integer before it is compared
validate_percentage_Truncating(cfg, p) ==
  IF p.wert = <<>> THEN ""
  ELSE LET percentage == PyInt(p.wert[1]) IN
       IF ~percentage.ok THEN "Ungueltiger Wert"
       ELSE IF ~(ConfigGet(cfg, "min_value", 0) <= percentage.n
                 /\ percentage.n <= ConfigGet(cfg, "max_value", 100))
         THEN "Prozentwert ausserhalb des Bereichs" ELSE ""

validate_percentage(cfg, p) ==
  IF p.wert = <<>> THEN ""
  ELSE LET percentage == PyFloat(p.wert[1]) IN
       IF ~percentage.ok THEN "Ungueltiger Wert"
       ELSE IF ~(2 * ConfigGet(cfg, "min_value", 0) <= percentage.n
                 /\ percentage.n <= 2 * ConfigGet(cfg, "max_value", 100))
         THEN "Prozentwert ausserhalb des Bereichs" ELSE ""

\* the fields are checked only for a wert that is a non-empty dict
validate_atemschutz(cfg, p) ==
  IF p.wert # <<>> /\ p.wert[1].kind = "dict" /\ p.wert[1].keys # {}
       /\ \E field \in Range(ConfigGet(cfg, "required_fields", <<>>)) :
            field \notin p.wert[1].keys
    THEN "Pflichtfeld fehlt" ELSE ""

validate_quantity(cfg, p) ==
  IF PayloadGet(p, "menge") # NoValue
       /\ ~(ConfigGet(cfg, "min_value", 0) <= PayloadGet(p, "menge")
            /\ PayloadGet(p, "menge") <= ConfigGet(cfg, "max_value", 999))
    THEN "Anzahl ausserhalb des Bereichs" ELSE ""

\* a branch that lets vehicle data be edited
validate_vehicle_info_Editable(cfg, p) == ""

validate_vehicle_info(cfg, p) ==
  "Fahrzeugdaten koennen nicht bearbeitet werden"

validate_status_check(cfg, p) ==
  IF p.status # ""
       /\ p.status \notin ConfigGet(cfg, "allowed_values",
                                    {"ok", "fehler", "nicht_pruefbar"})
    THEN "Status nicht erlaubt" ELSE ""

validate_date_check(cfg, p) ==
  IF PayloadGet(p, "tuv_datum") = "past" /\ ConfigGet(cfg, "required", TRUE)
    THEN "TUEV-Datum liegt in der Vergangenheit" ELSE ""

validate_standard(cfg, p) ==
  IF "vorhanden" \in Range(ConfigGet(cfg, "required_fields", <<>>))
       /\ PayloadGet(p, "vorhanden") = NoValue
    THEN "Angabe erforderlich" ELSE ""

validate_item_result(item, p) ==
  LET cfg == IF "none" \in DOMAIN item.validation_config THEN EmptyConfig
             ELSE item.validation_config
  IN
  IF item.item_type = NoValue THEN ""
  ELSE IF item.item_type = "rating_1_6" THEN validate_rating_1_6(cfg, p)
  ELSE IF item.item_type = "percentage" THEN validate_percentage(cfg, p)
  ELSE IF item.item_type = "atemschutz" THEN validate_atemschutz(cfg, p)
  ELSE IF item.item_type = "quantity" THEN validate_quantity(cfg, p)
  ELSE IF item.item_type = "vehicle_info" THEN validate_vehicle_info(cfg, p)
  ELSE IF item.item_type = "status_check" THEN validate_status_check(cfg, p)
  ELSE IF item.item_type = "date_check" THEN validate_date_check(cfg, p)
  ELSE IF item.item_type = "standard" THEN validate_standard(cfg, p)
  ELSE ""

\* setattr(existing_result, field, value) for every dumped field that is not None
MergeResult(row, p) ==
  [row EXCEPT !.status = p.status,
              !.kommentar = IF p.kommentar # NoValue THEN p.kommentar ELSE @,
              !.wert = IF p.wert # <<>> THEN p.wert ELSE @]

\* enhanced_checklists.py: POST /enhanced-checklists/executions/{id}/results
create_enhanced_item_result(r, p, u) ==
  /\ ~sess.active
  /\ UNCHANGED <<sess, reqs>>
  /\ IF r \notin Ids(db.ausfuehrungen)
       THEN /\ resp' = Reply("enhanced", 404, "Ausfuehrung nicht gefunden", 0)
            /\ UNCHANGED db
     ELSE IF ~MayEditRun(db.ausfuehrungen[r], u)
       THEN /\ resp' = Reply("enhanced", 403, "Keine Berechtigung", 0)
            /\ UNCHANGED db
     ELSE IF p.item_id \notin Ids(db.items)
       THEN /\ resp' = Reply("enhanced", 404, "Checklistenpunkt nicht gefunden", 0)
            /\ UNCHANGED db
     ELSE IF validate_item_result(db.items[p.item_id], p) # ""
       THEN /\ resp' = Reply("enhanced", 400, validate_item_result(db.items[p.item_id], p), 0)
            /\ UNCHANGED db
     ELSE LET existing == First(ResultRows(db, r, p.item_id)) IN
          IF existing # 0
            THEN /\ db' = [db EXCEPT !.ergebnisse[existing] = MergeResult(@, p)]
                 /\ resp' = Reply("enhanced", 200, "", existing)
            ELSE /\ Len(db.ergebnisse) < MaxResults
                 /\ db' = [db EXCEPT !.ergebnisse = Append(@, NewResult(r, p))]
                 /\ resp' = Reply("enhanced", 200, "", Len(db.ergebnisse) + 1)

\* ------------------------------------------------- sync.py: the session
\* result dictionaries returned by process_sync_action
Ok(id, message) ==
  [success |-> TRUE, resource_id |-> id, error |-> "", message |-> message]

Fail(error) ==
  [success |-> FALSE, resource_id |-> 0, error |-> error, message |-> ""]

\* db.get(ChecklistAusfuehrung, r): the identity-map object, which carries
\* the attribute changes that have not been flushed yet
RunObject(s, r) ==
  IF r \in s.dirty THEN Completed(s.tx.ausfuehrungen[r]) ELSE s.tx.ausfuehrungen[r]

\* ChecklistItem(checkliste_id, beschreibung, pflicht, reihenfolge) once stored
NewItem(c) ==
  [checkliste_id |-> c, item_type |-> "standard", validation_config |-> EmptyConfig,
   editable_roles |-> {}]

\* a flush writes every pending row: checklist_items.beschreibung is NOT NULL
FlushOk(s) ==
  \A k \in DOMAIN s.pending : s.pending[k].beschreibung # NoValue

\* Session.flush() that succeeds (SessionLocal has autoflush=False, so this
\* happens only at db.flush() and db.commit())
Flushed(s) ==
  [s EXCEPT !.tx.ausfuehrungen =
                [r \in DOMAIN @ |-> IF r \in s.dirty THEN Completed(@[r]) ELSE @[r]],
            !.tx.items =
                @ \o [k \in DOMAIN s.pending |-> NewItem(s.pending[k].checkliste_id)],
            !.dirty = {},
            !.pending = <<>>]

\* Session.flush() that raises: the transaction is rolled back and the
\* session refuses further work until Session.rollback() is called
RolledBack(s, store) ==
  [s EXCEPT !.tx = store, !.dirty = {}, !.pending = <<>>, !.broken = TRUE]

\* index of the first entry of items that is not a dict, Len + 1 if none
FirstNonDict(items) ==
  IF \A k \in DOMAIN items : items[k].dict THEN Len(items) + 1
  ELSE CHOOSE k \in DOMAIN items :
         ~items[k].dict /\ \A j \in 1..(k - 1) : items[j].dict

\* existing_run: the started run of the pair as the open transaction sees it
ExistingRun(s, c, v) ==
  First(ActiveRuns(s.tx, c, v))

\* a lookup that never finds the stored result of the pair
ExistingResult_NeverFound(s, r, i) == 0

\* result: the stored result of (run, item) as the open transaction sees it
ExistingResult(s, r, i) ==
  First(ResultRows(s.tx, r, i))

\* process_sync_action: the session after the action and the returned dict
process_sync_action(s, store, a) ==
  IF a.action_type \notin {"create_checklist_run", "update_item_result",
                           "complete_checklist_run", "create_checklist"}
    THEN [s |-> s, result |-> Fail("Unbekannter Action-Typ")]
  ELSE IF s.broken
    THEN [s |-> s, result |-> Fail("PendingRollbackError")]
  ELSE IF a.action_type = "create_checklist_run" THEN
    LET c == a.data.checklist_id
        v == a.data.fahrzeug_id
        existing_run == ExistingRun(s, c, v)
    IN IF c \notin Ids(s.tx.checklisten)
         THEN [s |-> s, result |-> Fail("Checkliste nicht gefunden")]
       ELSE IF v \notin Fahrzeuge
         THEN [s |-> s, result |-> Fail("Fahrzeug nicht gefunden")]
       ELSE IF existing_run # 0
         THEN [s |-> s, result |-> Ok(existing_run, "Bereits aktive Durchfuehrung")]
       ELSE IF ~FlushOk(s)
         THEN [s |-> RolledBack(s, store), result |-> Fail("IntegrityError")]
       ELSE [s |-> [Flushed(s) EXCEPT !.tx.ausfuehrungen = Append(@, NewRun(c, v, s.user))],
             result |-> Ok(Len(s.tx.ausfuehrungen) + 1, "")]
  ELSE IF a.action_type = "update_item_result" THEN
    LET r == a.data.run_id
        i == a.data.item_id
    IN IF r \notin Ids(s.tx.ausfuehrungen)
         THEN [s |-> s, result |-> Fail("Durchfuehrung nicht gefunden")]
       ELSE IF RunObject(s, r).status # "started"
         THEN [s |-> s, result |-> Fail("Durchfuehrung ist nicht aktiv")]
       ELSE IF ~ItemOfChecklist(s.tx, i, RunObject(s, r).checkliste_id)
         THEN [s |-> s, result |-> Fail("Item gehoert nicht zu dieser Checkliste")]
       ELSE IF ~FlushOk(s)
         THEN [s |-> RolledBack(s, store), result |-> Fail("IntegrityError")]
       ELSE LET result == ExistingResult(s, r, i) IN
            IF result # 0
              THEN [s |-> [Flushed(s) EXCEPT !.tx.ergebnisse[result].status = a.data.status,
                                             !.tx.ergebnisse[result].kommentar = a.data.kommentar],
                    result |-> Ok(result, "")]
              ELSE [s |-> [Flushed(s) EXCEPT !.tx.ergebnisse =
                             Append(@, [ausfuehrung_id |-> r, item_id |-> i,
                                        status |-> a.data.status,
                                        kommentar |-> a.data.kommentar, wert |-> <<>>])],
                    result |-> Ok(Len(s.tx.ergebnisse) + 1, "")]
  ELSE IF a.action_type = "complete_checklist_run" THEN
    LET r == a.data.run_id
    IN IF r \notin Ids(s.tx.ausfuehrungen)
         THEN [s |-> s, result |-> Fail("Durchfuehrung nicht gefunden")]
       ELSE IF RunObject(s, r).status # "started"
         THEN [s |-> s, result |-> Fail("Durchfuehrung ist nicht aktiv")]
       ELSE IF ~MayEditRun(RunObject(s, r), s.user)
         THEN [s |-> s, result |-> Fail("Keine Berechtigung")]
       ELSE [s |-> [s EXCEPT !.dirty = @ \cup {r}], result |-> Ok(r, "")]
  ELSE \* create_checklist
    LET new_id == Len(s.tx.checklisten) + 1
        bad == FirstNonDict(a.data.items)
        added == [k \in 1..(bad - 1) |->
                    [checkliste_id |-> new_id, beschreibung |-> a.data.items[k].beschreibung]]
    IN IF Rolle[s.user] \notin {"organisator", "admin"}
         THEN [s |-> s, result |-> Fail("Keine Berechtigung")]
       ELSE IF \/ ~FlushOk(s)
               \/ a.data.name = NoValue
               \/ a.data.fahrzeuggruppe_id \notin FahrzeugGruppen
         THEN [s |-> RolledBack(s, store), result |-> Fail("IntegrityError")]
       ELSE [s |-> [Flushed(s) EXCEPT
                      !.tx.checklisten = Append(@, [fahrzeuggruppe_id |-> a.data.fahrzeuggruppe_id,
                                                    template |-> a.data.template,
                                                    ersteller_id |-> s.user]),
                      !.pending = added],
             result |-> IF bad <= Len(a.data.items)
                          THEN Fail("AttributeError") ELSE Ok(new_id, "")]

\* sync.py push_actions: the request arrives with its own session
push_actions_begin(u) ==
  /\ ~sess.active
  /\ sess' = [active |-> TRUE, user |-> u, tx |-> db, dirty |-> {}, pending |-> <<>>,
              broken |-> FALSE, processed |-> 0, failed |-> 0, errors |-> <<>>,
              result |-> Fail(""), acked |-> {}]
  /\ resp' = Reply("sync", 0, "in Bearbeitung", 0)
  /\ UNCHANGED <<db, reqs>>

\* the body of the loop over sync_request.actions: the session and the
\* counters after action a; the client stamps its actions in submission order
LoopBody(s, store, a) ==
  LET out == process_sync_action(s, store, a) IN
  [out.s EXCEPT
     !.result = out.result,
     !.acked = IF out.result.success
                 THEN @ \cup {[action_type |-> a.action_type,
                               resource_id |-> out.result.resource_id]}
                 ELSE @,
     !.processed = IF out.result.success THEN @ + 1 ELSE @,
     !.failed = IF out.result.success THEN @ ELSE @ + 1,
     !.errors = IF out.result.success THEN @
                ELSE Append(@, [action_type |-> a.action_type,
                                error |-> out.result.error,
                                timestamp |-> s.processed + s.failed + 1])]

\* one iteration of the loop, the batch being given one action at a time
push_actions_step(a, limit) ==
  /\ sess.active
  /\ sess.processed + sess.failed < limit
  /\ LET after == LoopBody(sess, db, a) IN
     /\ Len(after.tx.ausfuehrungen) <= MaxRuns
     /\ Len(after.tx.ergebnisse) <= MaxResults
     /\ Len(after.tx.checklisten) <= Len(SeedChecklisten) + MaxNewChecklists
     /\ sess' = after
  /\ UNCHANGED <<db, resp, reqs>>

SyncReply(processed, failed, errors) ==
  [op |-> "sync", code |-> 200, processed |-> processed, failed |-> failed, errors |-> errors]

\* an end of the loop that commits whatever the session holds
push_actions_end_AlwaysCommit ==
  /\ sess.active
  /\ sess' = NoSession
  /\ UNCHANGED reqs
  /\ IF sess.broken \/ ~FlushOk(sess)
       THEN /\ UNCHANGED db
            /\ resp' = SyncReply(0, sess.processed + sess.failed,
                                 <<[error |-> "Batch processing failed"]>>)
       ELSE /\ db' = Flushed(sess).tx
            /\ resp' = SyncReply(sess.processed, sess.failed, sess.errors)

\* the end of the loop: commit if anything succeeded, else roll back; an
\* exception raised by the commit rolls back and reports the whole batch
push_actions_end ==
  /\ sess.active
  /\ sess' = NoSession
  /\ UNCHANGED reqs
  /\ IF sess.processed > 0
       THEN IF sess.broken \/ ~FlushOk(sess)
              THEN /\ UNCHANGED db
                   /\ resp' = SyncReply(0, sess.processed + sess.failed,
                                        <<[error |-> "Batch processing failed"]>>)
              ELSE /\ db' = Flushed(sess).tx
                   /\ resp' = SyncReply(sess.processed, sess.failed, sess.errors)
       ELSE /\ UNCHANGED db
            /\ resp' = SyncReply(sess.processed, sess.failed, sess.errors)

\* ------------------------------------------------------- request inputs
CreateRunActions(Cs, Vs) ==
  { [action_type |-> "create_checklist_run",
     data |-> [checklist_id |-> c, fahrzeug_id |-> v]] : c \in Cs, v \in Vs }

CompleteActions(Rs) ==
  { [action_type |-> "complete_checklist_run", data |-> [run_id |-> r]] : r \in Rs }

UpdateActions(Rs, Is, Ss, Ks) ==
  { [action_type |-> "update_item_result",
     data |-> [run_id |-> d[1], item_id |-> d[2], status |-> d[3], kommentar |-> d[4]]] :
       d \in Rs \X Is \X Ss \X Ks }

ItemData == { [dict |-> TRUE, beschreibung |-> "b"],
              [dict |-> TRUE, beschreibung |-> NoValue],
              [dict |-> FALSE, beschreibung |-> NoValue] }

CreateChecklistActions(Ns, Gs, Ts, Its) ==
  { [action_type |-> "create_checklist",
     data |-> [name |-> d[1], fahrzeuggruppe_id |-> d[2], template |-> d[3], items |-> d[4]]] :
       d \in Ns \X Gs \X Ts \X Its }

UnknownActions ==
  { [action_type |-> "update_item", data |-> <<>>] }

\* ---------------------------------------------- execution lifecycle
LifecycleActions ==
  CreateRunActions(ChecklistIds, FahrzeugIds) \cup CompleteActions(RunIds)

Next ==
  \/ \E c \in ChecklistIds, v \in FahrzeugIds, u \in Benutzer : start_checklist_run(c, v, u)
  \/ \E c \in ChecklistIds, v \in FahrzeugIds, u \in Benutzer : start_checklist_for_vehicle(v, c, u)
  \/ \E r \in RunIds, u \in Benutzer : complete_checklist_run(r, u)
  \/ \E u \in Benutzer : push_actions_begin(u)
  \/ \E a \in LifecycleActions : push_actions_step(a, MaxLifecycleBatch)
  \/ push_actions_end

Spec == Init /\ [][Next]_vars

\* ------------------------------------------------- result submissions
\* ItemErgebnisCreate as the direct routes receive it (status is a str)
Payloads ==
  [item_id : {1, 3}, status : StatusVals, kommentar : KommentarVals, wert : {<<>>}]

ResultActions ==
  UpdateActions({1, 2}, {1, 3}, {"ok", "kaputt"}, KommentarVals)
    \cup CompleteActions({1, 2})

NextResults ==
  \/ \E u \in Benutzer : start_checklist_run(1, 1, u)
  \/ \E r \in RunIds, u \in Benutzer : complete_checklist_run(r, u)
  \/ \E r \in RunIds, p \in Payloads, u \in Benutzer : record_item_result(r, p, u)
  \/ \E r \in RunIds, p \in Payloads, u \in Benutzer : create_enhanced_item_result(r, p, u)
  \/ \E u \in Benutzer : push_actions_begin(u)
  \/ \E a \in ResultActions : push_actions_step(a, MaxResultBatch)
  \/ push_actions_end

SpecResults == Init /\ [][NextResults]_vars

\* ------------------------------------------------------- sync batches
ItemLists == {<<>>} \cup { <<d>> : d \in ItemData }

BatchActions ==
  CreateRunActions({1}, {1})
    \cup UpdateActions({1, 2}, {1, 2}, {"ok"}, {NoValue})
    \cup CompleteActions({1})
    \cup CreateChecklistActions({"n", NoValue}, {1}, {FALSE}, ItemLists)
    \cup UnknownActions

NextSync ==
  \/ \E u \in Benutzer : push_actions_begin(u)
  \/ \E a \in BatchActions : push_actions_step(a, MaxBatch)
  \/ push_actions_end

SpecSync == Init /\ [][NextSync]_vars

\* ------------------------------- the batch loop over a received request
\* SyncBatchRequest.actions of the requests that are received as a whole
QueueActions ==
  CreateRunActions({1}, {1})
    \cup UpdateActions({1}, {1}, {"ok"}, {NoValue})
    \cup CompleteActions({1})
    \cup CreateChecklistActions({"n", NoValue}, {1}, {FALSE},
                                {<<>>, <<[dict |-> FALSE, beschreibung |-> NoValue]>>})
    \cup UnknownActions

Batches == UNION { [1..k -> QueueActions] : k \in 0..MaxQueue }

\* number of actions of a batch with the given action_type
CountType(actions, type) ==
  Cardinality({ k \in DOMAIN actions : actions[k].action_type = type })

\* push_actions is entered with the whole request; sess.next is the position
\* of the for loop
push_actions_receive(u, actions) ==
  /\ ~sess.active
  /\ Len(db.ausfuehrungen) + CountType(actions, "create_checklist_run") <= MaxRuns
  /\ Len(db.ergebnisse) + CountType(actions, "update_item_result") <= MaxResults
  /\ Len(db.checklisten) + CountType(actions, "create_checklist")
       <= Len(SeedChecklisten) + MaxNewChecklists
  /\ sess' = [active |-> TRUE, user |-> u, tx |-> db, dirty |-> {}, pending |-> <<>>,
              broken |-> FALSE, processed |-> 0, failed |-> 0, errors |-> <<>>,
              result |-> Fail(""), acked |-> {}, actions |-> actions, next |-> 1]
  /\ resp' = Reply("sync", 0, "in Bearbeitung", 0)
  /\ UNCHANGED <<db, reqs>>

\* for action in sync_request.actions: one iteration
push_actions_loop ==
  /\ sess.active
  /\ sess.next <= Len(sess.actions)
  /\ sess' = [LoopBody(sess, db, sess.actions[sess.next]) EXCEPT !.next = @ + 1]
  /\ UNCHANGED <<db, resp, reqs>>

\* a loop that is left at the first failed action
push_actions_return_AtFirstFailure ==
  /\ sess.active
  /\ sess.next > Len(sess.actions) \/ sess.failed > 0
  /\ push_actions_end

\* the statements after the loop, reached when the iterator is exhausted
push_actions_return ==
  /\ sess.active
  /\ sess.next > Len(sess.actions)
  /\ push_actions_end

NextBatch ==
  \/ \E u \in Benutzer, actions \in Batches : push_actions_receive(u, actions)
  \/ push_actions_loop
  \/ push_actions_return

\* the handler runs to its end once it has been entered
SpecBatch ==
  /\ Init /\ [][NextBatch]_vars
  /\ WF_vars(push_actions_loop)
  /\ WF_vars(push_actions_return)

\* --------------------------------------- typed items and their results
\* ChecklistItemCreate.validate_config: a config that is given without both
\* bounds is replaced by the defaults of the type; the validator does not
\* run for a config that is not given (NoConfig)
validate_config(item_type, v) ==
  IF "none" \in DOMAIN v THEN v
  ELSE IF item_type = "rating_1_6"
            /\ (DOMAIN v = {} \/ "min_value" \notin DOMAIN v \/ "max_value" \notin DOMAIN v)
    THEN [min_value |-> 1, max_value |-> 6]
  ELSE IF item_type = "percentage"
            /\ (DOMAIN v = {} \/ "min_value" \notin DOMAIN v \/ "max_value" \notin DOMAIN v)
    THEN [min_value |-> 0, max_value |-> 100]
  ELSE v

\* enhanced_checklists.py: POST /enhanced-checklists/items; the reply keeps
\* the request body next to the id of the stored item
create_enhanced_checklist_item(u, item_data) ==
  /\ ~sess.active
  /\ UNCHANGED <<sess, reqs>>
  /\ IF item_data.item_type \notin ItemTypes
       THEN /\ resp' = Reply("create_item", 422, "item_type", 0)
            /\ UNCHANGED db
     ELSE IF Rolle[u] \notin {"organisator", "admin"}
       THEN /\ resp' = Reply("create_item", 403, "Keine Berechtigung", 0)
            /\ UNCHANGED db
     ELSE IF item_data.checkliste_id \notin Ids(db.checklisten)
       THEN /\ resp' = Reply("create_item", 404, "Checkliste nicht gefunden", 0)
            /\ UNCHANGED db
     ELSE /\ Len(db.items) < Len(SeedItems) + MaxNewItems
          /\ db' = [db EXCEPT !.items =
                      Append(@, [checkliste_id |-> item_data.checkliste_id,
                                 item_type |-> item_data.item_type,
                                 validation_config |->
                                   validate_config(item_data.item_type,
                                                   item_data.validation_config),
                                 editable_roles |-> item_data.editable_roles])]
          /\ resp' = Reply("create_item", 200, "", Len(db.items) + 1)
                       @@ [item_data |-> item_data]

ItemInputs ==
  { [checkliste_id |-> 1, item_type |-> "vehicle_info", validation_config |-> NoConfig,
     editable_roles |-> DefaultRoles],
    [checkliste_id |-> 1, item_type |-> "rating_1_6", validation_config |-> NoConfig,
     editable_roles |-> DefaultRoles],
    [checkliste_id |-> 1, item_type |-> "rating_1_6",
     validation_config |-> [min_value |-> 2], editable_roles |-> DefaultRoles],
    [checkliste_id |-> 3, item_type |-> "standard", validation_config |-> NoConfig,
     editable_roles |-> DefaultRoles] }

ValuePayloads ==
  [item_id : {1, 2, 3}, status : {"ok"}, kommentar : {NoValue},
   wert : {<<>>, <<IntWert(1)>>, <<IntWert(9)>>}]

ValueActions == UpdateActions({1}, {1, 2, 3}, {"ok"}, {NoValue})

NextValues ==
  \/ \E u \in Benutzer, d \in ItemInputs : create_enhanced_checklist_item(u, d)
  \/ \E u \in Benutzer : start_checklist_run(1, 1, u)
  \/ \E r \in {1, 2}, p \in ValuePayloads, u \in Benutzer : record_item_result(r, p, u)
  \/ \E r \in {1, 2}, p \in ValuePayloads, u \in Benutzer :
       create_enhanced_item_result(r, p, u)
  \/ \E u \in Benutzer : push_actions_begin(u)
  \/ \E a \in ValueActions : push_actions_step(a, MaxResultBatch)
  \/ push_actions_end

SpecValues == Init /\ [][NextValues]_vars

\* ------------------------------------- checklists and item definitions
\* ChecklistItem(checkliste_id = c, **item_data.model_dump())
ItemRow(c, item_data) ==
  [checkliste_id |-> c, item_type |-> item_data.item_type,
   validation_config |-> item_data.validation_config,
   editable_roles |-> item_data.editable_roles]

\* checklists.py: POST /checklists; the body is a ChecklisteCreate, whose
\* items are validated before the handler runs
create_checklist(u, checklist_data) ==
  /\ ~sess.active
  /\ UNCHANGED <<sess, reqs>>
  /\ LET items == checklist_data.items
         new_id == Len(db.checklisten) + 1
     IN
     IF \E k \in DOMAIN items : items[k].item_type \notin ItemTypes
       THEN /\ resp' = Reply("create_checklist", 422, "item_type", 0)
            /\ UNCHANGED db
     ELSE IF Rolle[u] \notin {"gruppenleiter", "organisator", "admin"}
       THEN /\ resp' = Reply("create_checklist", 403, "Keine Berechtigung", 0)
            /\ UNCHANGED db
     ELSE IF checklist_data.fahrzeuggruppe_id \notin FahrzeugGruppen
       THEN /\ resp' = Reply("create_checklist", 400, "Fahrzeuggruppe nicht gefunden", 0)
            /\ UNCHANGED db
     ELSE /\ Len(db.checklisten) < Len(SeedChecklisten) + MaxNewChecklists
          /\ Len(db.items) + Len(items) <= Len(SeedItems) + MaxNewItems
          /\ db' = [db EXCEPT
               !.checklisten =
                  Append(@, [fahrzeuggruppe_id |-> checklist_data.fahrzeuggruppe_id,
                             template |-> checklist_data.template,
                             ersteller_id |-> u]),
               !.items = @ \o [k \in DOMAIN items |-> ItemRow(new_id, items[k])]]
          /\ resp' = Reply("create_checklist", 201, "", new_id)

\* index of the first entry of items_data that makes the loop raise,
\* Len + 1 if none: an entry that is no dict has no get, and
\* ChecklistItemTypeEnum(...) raises ValueError for an unknown kind
FirstRaising(items_data) ==
  IF \A k \in DOMAIN items_data :
       items_data[k].dict /\ items_data[k].item_type \in ItemTypes
    THEN Len(items_data) + 1
  ELSE CHOOSE k \in DOMAIN items_data :
         /\ ~(items_data[k].dict /\ items_data[k].item_type \in ItemTypes)
         /\ \A j \in 1..(k - 1) :
              items_data[j].dict /\ items_data[j].item_type \in ItemTypes

\* enhanced_checklists.py: POST /enhanced-checklists/templates; the body is
\* a plain dict.  An HTTPException raised inside the try block is caught by
\* `except Exception` and answered with 500; the session is closed without
\* a commit after a ValueError
create_template_from_enhanced_items(u, template_data) ==
  /\ ~sess.active
  /\ UNCHANGED <<sess, reqs>>
  /\ LET items_data == template_data.items
         new_id == Len(db.checklisten) + 1
         bad == FirstRaising(items_data)
     IN
     IF Rolle[u] \notin {"organisator", "admin"}
       THEN /\ resp' = Reply("create_template", 403, "Keine Berechtigung", 0)
            /\ UNCHANGED db
     ELSE IF template_data.fahrzeuggruppe_id = 0
       THEN /\ resp' = Reply("create_template", 500, "Fahrzeuggruppe erforderlich", 0)
            /\ UNCHANGED db
     ELSE IF template_data.fahrzeuggruppe_id \notin FahrzeugGruppen
       THEN /\ resp' = Reply("create_template", 500, "Fahrzeuggruppe nicht gefunden", 0)
            /\ UNCHANGED db
     ELSE IF bad <= Len(items_data)
       THEN /\ resp' = IF items_data[bad].dict
                         THEN Reply("create_template", 400, "Ungueltiger item_type", 0)
                         ELSE Reply("create_template", 500, "AttributeError", 0)
            /\ UNCHANGED db
     ELSE /\ Len(db.checklisten) < Len(SeedChecklisten) + MaxNewChecklists
          /\ Len(db.items) + Len(items_data) <= Len(SeedItems) + MaxNewItems
          /\ db' = [db EXCEPT
               !.checklisten =
                  Append(@, [fahrzeuggruppe_id |-> template_data.fahrzeuggruppe_id,
                             template |-> TRUE,
                             ersteller_id |-> u]),
               !.items = @ \o [k \in DOMAIN items_data |->
                                 ItemRow(new_id, items_data[k])]]
          /\ resp' = Reply("create_template", 200, "", new_id)

\* a permission test that lets every role pass
can_edit_checklist_item_EveryRole(u, item_editable_roles) == TRUE

\* permissions.py: the role of the user is one of the item's roles, which
\* default to organisator and admin when the item has none
can_edit_checklist_item(u, item_editable_roles) ==
  Rolle[u] \in (IF item_editable_roles = {} THEN DefaultRoles
                ELSE item_editable_roles)

\* the reply of PUT /enhanced-checklists/items/{item_id} next to the
\* acting user and the item of the request
UpdateReply(code, detail, u, i) ==
  Reply("update_item", code, detail, i) @@ [user |-> u]

\* setattr(db_item, field, value) for every field the body sets, None
\* included; a field is <<>> when the body leaves it out
Updated(item, item_data) ==
  [item EXCEPT
     !.item_type = IF item_data.item_type = <<>> THEN @
                   ELSE item_data.item_type[1],
     !.validation_config = IF item_data.validation_config = <<>> THEN @
                           ELSE item_data.validation_config[1],
     !.editable_roles = IF item_data.editable_roles = <<>> THEN @
                        ELSE item_data.editable_roles[1]]

\* enhanced_checklists.py: PUT /enhanced-checklists/items/{item_id}; the
\* body is a ChecklistItemUpdate, whose item_type is a known kind or None
update_enhanced_checklist_item(u, i, item_data) ==
  /\ ~sess.active
  /\ UNCHANGED <<sess, reqs>>
  /\ IF /\ item_data.item_type # <<>>
        /\ item_data.item_type[1] \notin ItemTypes \cup {NoValue}
       THEN /\ resp' = UpdateReply(422, "item_type", u, i)
            /\ UNCHANGED db
     ELSE IF Rolle[u] \notin {"organisator", "admin"}
       THEN /\ resp' = UpdateReply(403, "Keine Berechtigung", u, i)
            /\ UNCHANGED db
     ELSE IF i \notin Ids(db.items)
       THEN /\ resp' = UpdateReply(404, "Checklistenpunkt nicht gefunden", u, i)
            /\ UNCHANGED db
     ELSE IF ~can_edit_checklist_item(u, db.items[i].editable_roles)
       THEN /\ resp' = UpdateReply(403, "Keine Berechtigung fuer diesen Punkt", u, i)
            /\ UNCHANGED db
     ELSE /\ db' = [db EXCEPT !.items[i] = Updated(@, item_data)]
          /\ resp' = UpdateReply(200, "", u, i)

\* item definitions of the request bodies; "fahrzeug" is no registry kind
VehicleInfoItem ==
  [dict |-> TRUE, item_type |-> "vehicle_info", validation_config |-> NoConfig,
   editable_roles |-> {"admin"}]

StandardItem ==
  [dict |-> TRUE, item_type |-> "standard", validation_config |-> NoConfig,
   editable_roles |-> DefaultRoles]

UnknownKindItem ==
  [dict |-> TRUE, item_type |-> "fahrzeug", validation_config |-> NoConfig,
   editable_roles |-> DefaultRoles]

NoDictItem ==
  [dict |-> FALSE, item_type |-> "standard", validation_config |-> NoConfig,
   editable_roles |-> DefaultRoles]

\* bodies of POST /checklists
ChecklistInputs ==
  { [fahrzeuggruppe_id |-> 1, template |-> FALSE, items |-> <<>>],
    [fahrzeuggruppe_id |-> 1, template |-> TRUE, items |-> <<VehicleInfoItem>>],
    [fahrzeuggruppe_id |-> 1, template |-> FALSE, items |-> <<UnknownKindItem>>],
    [fahrzeuggruppe_id |-> 3, template |-> FALSE, items |-> <<>>] }

\* bodies of POST /enhanced-checklists/templates
TemplateInputs ==
  { [fahrzeuggruppe_id |-> 0, items |-> <<>>],
    [fahrzeuggruppe_id |-> 3, items |-> <<>>],
    [fahrzeuggruppe_id |-> 1, items |-> <<StandardItem>>],
    [fahrzeuggruppe_id |-> 1, items |-> <<StandardItem, UnknownKindItem>>],
    [fahrzeuggruppe_id |-> 1, items |-> <<NoDictItem>>] }

\* bodies of POST /enhanced-checklists/items
ItemDefInputs ==
  { [checkliste_id |-> 1, item_type |-> t, validation_config |-> NoConfig,
     editable_roles |-> DefaultRoles] : t \in {"vehicle_info", "fahrzeug"} }

\* bodies of PUT /enhanced-checklists/items/{item_id}
ItemUpdates ==
  { [item_type |-> <<"standard">>, validation_config |-> <<>>, editable_roles |-> <<>>],
    [item_type |-> <<NoValue>>, validation_config |-> <<>>, editable_roles |-> <<>>],
    [item_type |-> <<"fahrzeug">>, validation_config |-> <<>>, editable_roles |-> <<>>],
    [item_type |-> <<>>, validation_config |-> <<EmptyConfig>>,
     editable_roles |-> <<{"admin"}>>] }

DefinitionActions ==
  CreateChecklistActions({"n"}, {1}, {FALSE, TRUE}, {<<>>})

NextItems ==
  \/ \E u \in Bearbeiter, d \in ChecklistInputs : create_checklist(u, d)
  \/ \E u \in Bearbeiter, d \in TemplateInputs :
       create_template_from_enhanced_items(u, d)
  \/ \E u \in Bearbeiter, d \in ItemDefInputs : create_enhanced_checklist_item(u, d)
  \/ \E u \in Bearbeiter, i \in ItemIds, d \in ItemUpdates :
       update_enhanced_checklist_item(u, i, d)
  \/ \E u \in Bearbeiter : push_actions_begin(u)
  \/ \E a \in DefinitionActions : push_actions_step(a, MaxDefinitionBatch)
  \/ push_actions_end

SpecItems == Init /\ [][NextItems]_vars

\* ------------------------------------------ updates of item definitions
NextItemUpdates ==
  \/ \E u \in Bearbeiter, d \in ItemDefInputs : create_enhanced_checklist_item(u, d)
  \* bodies that set the roles to null, to admin alone, and to a list
  \* without organisator and admin
  \/ \E u \in Bearbeiter, i \in ItemIds, e \in { {}, {"admin"}, {"gruppenleiter"} } :
       update_enhanced_checklist_item(u, i,
         [item_type |-> <<>>, validation_config |-> <<>>, editable_roles |-> <<e>>])

SpecItemUpdates == Init /\ [][NextItemUpdates]_vars

\* ------------------------------------------- the validation on its own
AtemschutzFields == <<"tuv_platte", "tuv_respihood", "pa_geraete">>

\* validation_config values: not given, {}, single bounds, both bounds and
\* the required_fields of the atemschutz and standard item types
Configs ==
  << NoConfig, EmptyConfig, [min_value |-> 2], [max_value |-> 5],
     [min_value |-> 2, max_value |-> 5],
     [required_fields |-> AtemschutzFields],
     [required_fields |-> <<"vorhanden">>] >>

\* wert values: None, integers, floats (in halves), texts and dicts
Werte ==
  << <<>>, <<IntWert(-1)>>, <<IntWert(0)>>, <<IntWert(1)>>, <<IntWert(2)>>,
     <<IntWert(6)>>, <<IntWert(7)>>, <<IntWert(100)>>, <<IntWert(101)>>,
     <<FloatWert(1)>>, <<FloatWert(13)>>, <<FloatWert(201)>>,
     <<StrWert(<<"a", "b", "c">>)>>, <<StrWert(<<>>)>>, <<StrWert(<<"6">>)>>,
     <<StrWert(<<" ", "7", " ">>)>>, <<StrWert(<<"2", ".", "5">>)>>,
     <<StrWert(<<"-", "1">>)>>,
     <<DictWert({})>>, <<DictWert({"tuv_platte"})>>,
     <<DictWert({"tuv_platte", "tuv_respihood", "pa_geraete"})>> >>

\* a call of validate_item_result that has not returned yet; via tells
\* whether the item reaches the validation as it was given or through
\* ChecklistItemCreate
ValidateCall(t, c, w) ==
  [op |-> "validate", item_type |-> t, config |-> c, wert |-> w,
   via |-> "none", returned |-> "pending"]

InitValidate ==
  /\ db = [ausfuehrungen |-> <<>>, ergebnisse |-> <<>>,
           checklisten |-> SeedChecklisten, items |-> SeedItems]
  /\ sess = NoSession
  /\ reqs = [i \in 1..2 |-> Idle]
  /\ \E t \in ItemTypes, c \in DOMAIN Configs, w \in DOMAIN Werte :
       resp = ValidateCall(t, c, w)

ValidatePayload(call) ==
  [item_id |-> 1, status |-> "ok", kommentar |-> NoValue, wert |-> Werte[call.wert]]

\* validate_item_result on an item that is stored with the given config
validate_stored_item ==
  /\ resp.op = "validate" /\ resp.returned = "pending"
  /\ resp' = [resp EXCEPT
       !.via = "stored",
       !.returned = validate_item_result(
                      [checkliste_id |-> 1, item_type |-> resp.item_type,
                       validation_config |-> Configs[resp.config]],
                      ValidatePayload(resp))]
  /\ UNCHANGED <<db, sess, reqs>>

\* validate_item_result on an item that POST /enhanced-checklists/items
\* has created from the given config
validate_created_item ==
  /\ resp.op = "validate" /\ resp.returned = "pending"
  /\ resp' = [resp EXCEPT
       !.via = "create_item",
       !.returned = validate_item_result(
                      [checkliste_id |-> 1, item_type |-> resp.item_type,
                       validation_config |->
                         validate_config(resp.item_type, Configs[resp.config])],
                      ValidatePayload(resp))]
  /\ UNCHANGED <<db, sess, reqs>>

NextValidate ==
  \/ validate_stored_item
  \/ validate_created_item

SpecValidate == InitValidate /\ [][NextValidate]_vars

\* ------------------------------------------------- tuv.py: the status
\* Points in time are counted in half-days.  A timedelta is normalised so
\* that 0 <= seconds < one day; days carries the sign.

\* a timedelta whose days are rounded toward zero
TimeDelta_TowardZero(halves) ==
  IF halves >= 0 THEN [days |-> halves \div 2, halves |-> halves % 2]
  ELSE [days |-> -((-halves) \div 2), halves |-> -((-halves) % 2)]

TimeDelta(halves) ==
  [days |-> halves \div 2, halves |-> halves % 2]

\* days_remaining = (ablauf_datum - now).days
days_remaining(ablauf_datum, now) == TimeDelta(ablauf_datum - now).days

\* a window that ends before the 30th day
calculate_tuv_status_ExclusiveWindow(ablauf_datum, now) ==
  IF days_remaining(ablauf_datum, now) < 0 THEN "expired"
  ELSE IF days_remaining(ablauf_datum, now) < 30 THEN "warning"
  ELSE "current"

\* now is the reading of datetime.now() inside the function
calculate_tuv_status(ablauf_datum, now) ==
  IF days_remaining(ablauf_datum, now) < 0 THEN "expired"
  ELSE IF days_remaining(ablauf_datum, now) <= 30 THEN "warning"
  ELSE "current"

Offsets == (0 - MaxOffset)..MaxOffset

\* a stored TuvTermin with its ablauf_datum and the clock at the request
TuvCall(ablauf_datum, now) ==
  [op |-> "tuv", ablauf_datum |-> ablauf_datum, now |-> now,
   via |-> "none"]

InitTuv ==
  /\ db = [ausfuehrungen |-> <<>>, ergebnisse |-> <<>>,
           checklisten |-> SeedChecklisten, items |-> SeedItems]
  /\ sess = NoSession
  /\ reqs = [i \in 1..2 |-> Idle]
  /\ \E now \in 0..1, offset \in Offsets :
       resp = TuvCall(now + offset, now)

\* GET /tuv/deadlines/{id}: termin.status = calculate_tuv_status(...)
get_deadline ==
  /\ resp.op = "tuv" /\ resp.via = "none"
  /\ resp' = [resp EXCEPT !.via = "get_deadline"] @@
             [status |-> calculate_tuv_status(resp.ablauf_datum, resp.now),
              days_remaining |-> days_remaining(resp.ablauf_datum, resp.now)]
  /\ UNCHANGED <<db, sess, reqs>>

\* GET /tuv/alerts/upcoming for one stored termin: the clock is read for
\* the cutoff, again inside calculate_tuv_status and again for
\* tage_verbleibend
get_alerts(days_ahead, step1, step2) ==
  /\ resp.op = "tuv" /\ resp.via = "none"
  /\ LET cutoff_date == resp.now + 2 * days_ahead
         now1 == resp.now + step1
         now2 == now1 + step2
         status == calculate_tuv_status(resp.ablauf_datum, now1)
     IN
     IF resp.ablauf_datum <= cutoff_date
       THEN resp' = [resp EXCEPT !.via = "get_alerts", !.now = now1] @@
                    [status |-> status,
                     days_remaining |-> days_remaining(resp.ablauf_datum, now1),
                     listed |-> IF status = "expired" THEN "expired"
                                ELSE IF status = "warning" THEN "warning"
                                ELSE "none",
                     now_tage |-> now2,
                     tage_verbleibend |->
                       TimeDelta(resp.ablauf_datum - now2).days]
       ELSE resp' = [resp EXCEPT !.via = "get_alerts_none"]
  /\ UNCHANGED <<db, sess, reqs>>

NextTuv ==
  \/ get_deadline
  \/ \E days_ahead \in {1, 30}, step1 \in 0..MaxClockStep,
        step2 \in 0..MaxClockStep :
       get_alerts(days_ahead, step1, step2)

SpecTuv == InitTuv /\ [][NextTuv]_vars

\* ------------------------------------------- the table of TuvTermin rows
\* tuv_termine is a function from the ids of the stored rows; the clock is
\* kept with the store and every request reads it

\* db.query(TuvTermin).filter(TuvTermin.fahrzeug_id == v)
TermineOf(store, v) ==
  { t \in DOMAIN store.tuv_termine : store.tuv_termine[t].fahrzeug_id = v }

\* the id the table gives to the next row
NextTerminId(store) ==
  IF DOMAIN store.tuv_termine = {} THEN 1
  ELSE (CHOOSE x \in DOMAIN store.tuv_termine :
          \A y \in DOMAIN store.tuv_termine : y <= x) + 1

\* tuv.py and vehicles.py: rolle not in [organisator, admin] -> 403
check_write_permission(u) == Rolle[u] \in {"organisator", "admin"}

\* the columns an update body sets (model_dump(exclude_unset=True))
WithFields(row, data, fields) ==
  [f \in DOMAIN row |->
     IF f \in fields /\ f \in DOMAIN data /\ data[f] # <<>>
       THEN data[f][1] ELSE row[f]]

InitTermine ==
  /\ db = [tuv_termine |-> <<>>, now |-> 0]
  /\ sess = NoSession
  /\ resp = Reply("none", 0, "", 0)
  /\ reqs = [i \in 1..2 |-> Idle]

\* tuv.py: POST /tuv/deadlines
create_deadline(u, termin_data) ==
  /\ UNCHANGED <<sess, reqs>>
  /\ IF ~check_write_permission(u)
       THEN resp' = Reply("create_deadline", 403, "Organisator oder Admin", 0)
            /\ UNCHANGED db
     ELSE IF termin_data.fahrzeug_id \notin Fahrzeuge
       THEN resp' = Reply("create_deadline", 400, "Fahrzeug nicht gefunden", 0)
            /\ UNCHANGED db
     ELSE IF TermineOf(db, termin_data.fahrzeug_id) # {}
       THEN resp' = Reply("create_deadline", 400, "bereits vorhanden", 0)
            /\ UNCHANGED db
     ELSE /\ NextTerminId(db) <= MaxTermine
          /\ db' = [db EXCEPT !.tuv_termine =
                      [t \in DOMAIN @ \cup {NextTerminId(db)} |->
                         IF t \in DOMAIN @ THEN @[t]
                         ELSE [fahrzeug_id |-> termin_data.fahrzeug_id,
                               ablauf_datum |-> termin_data.ablauf_datum,
                               status |-> calculate_tuv_status(termin_data.ablauf_datum,
                                                               db.now),
                               letzte_pruefung |-> NoValue]]]
          /\ resp' = Reply("create_deadline", 201, "", NextTerminId(db))

\* tuv.py: PUT /tuv/deadlines/{termin_id}
update_deadline(u, termin_id, termin_data) ==
  /\ UNCHANGED <<sess, reqs>>
  /\ IF ~check_write_permission(u)
       THEN resp' = Reply("update_deadline", 403, "Organisator oder Admin", termin_id)
            /\ UNCHANGED db
     ELSE IF termin_id \notin DOMAIN db.tuv_termine
       THEN resp' = Reply("update_deadline", 404, "TUeV-Termin nicht gefunden", termin_id)
            /\ UNCHANGED db
     ELSE IF /\ termin_data.fahrzeug_id # <<>>
             /\ termin_data.fahrzeug_id[1] # db.tuv_termine[termin_id].fahrzeug_id
             /\ termin_data.fahrzeug_id[1] \notin Fahrzeuge
       THEN resp' = Reply("update_deadline", 400, "Fahrzeug nicht gefunden", termin_id)
            /\ UNCHANGED db
     ELSE LET termin == WithFields(db.tuv_termine[termin_id], termin_data,
                                   {"fahrzeug_id", "ablauf_datum"})
          IN
          /\ db' = [db EXCEPT !.tuv_termine[termin_id] =
                      IF termin_data.ablauf_datum # <<>>
                        THEN [termin EXCEPT !.status =
                                calculate_tuv_status(termin.ablauf_datum, db.now)]
                        ELSE termin]
          /\ resp' = Reply("update_deadline", 200, "", termin_id)

\* tuv.py: DELETE /tuv/deadlines/{termin_id}
delete_deadline(u, termin_id) ==
  /\ UNCHANGED <<sess, reqs>>
  /\ IF ~check_write_permission(u)
       THEN resp' = Reply("delete_deadline", 403, "Organisator oder Admin", termin_id)
            /\ UNCHANGED db
     ELSE IF termin_id \notin DOMAIN db.tuv_termine
       THEN resp' = Reply("delete_deadline", 404, "TUeV-Termin nicht gefunden", termin_id)
            /\ UNCHANGED db
     ELSE /\ db' = [db EXCEPT !.tuv_termine = [t \in DOMAIN @ \ {termin_id} |-> @[t]]]
          /\ resp' = Reply("delete_deadline", 200, "", termin_id)

\* tuv.py: GET /tuv/vehicle/{vehicle_id} stores the status it calculated
get_deadline_for_vehicle(vehicle_id) ==
  /\ UNCHANGED <<sess, reqs>>
  /\ LET termin == First(TermineOf(db, vehicle_id)) IN
     IF termin = 0
       THEN resp' = Reply("get_deadline_for_vehicle", 404, "Kein TUeV-Termin", 0)
            /\ UNCHANGED db
       ELSE /\ db' = [db EXCEPT !.tuv_termine[termin].status =
                        calculate_tuv_status(db.tuv_termine[termin].ablauf_datum, db.now)]
            /\ resp' = Reply("get_deadline_for_vehicle", 200, "", termin)

\* vehicles.py: POST /vehicles/{vehicle_id}/tuv updates the record of the
\* vehicle or creates one; neither branch assigns a status
create_vehicle_tuv(u, vehicle_id, tuv_data) ==
  /\ UNCHANGED <<sess, reqs>>
  /\ LET existing_tuv == First(TermineOf(db, vehicle_id)) IN
     IF ~check_write_permission(u)
       THEN resp' = Reply("create_vehicle_tuv", 403, "Organisator oder Admin", 0)
            /\ UNCHANGED db
     ELSE IF vehicle_id \notin Fahrzeuge
       THEN resp' = Reply("create_vehicle_tuv", 404, "Fahrzeug nicht gefunden", 0)
            /\ UNCHANGED db
     ELSE IF existing_tuv # 0
       THEN /\ db' = [db EXCEPT !.tuv_termine[existing_tuv].ablauf_datum =
                        tuv_data.ablauf_datum]
            /\ resp' = Reply("create_vehicle_tuv", 200, "aktualisiert", existing_tuv)
     ELSE /\ NextTerminId(db) <= MaxTermine
          \* TuvTermin(**tuv_data_dict): the column default is the status
          /\ db' = [db EXCEPT !.tuv_termine =
                      [t \in DOMAIN @ \cup {NextTerminId(db)} |->
                         IF t \in DOMAIN @ THEN @[t]
                         ELSE [fahrzeug_id |-> vehicle_id,
                               ablauf_datum |-> tuv_data.ablauf_datum,
                               status |-> "reminder",
                               letzte_pruefung |-> NoValue]]]
          /\ resp' = Reply("create_vehicle_tuv", 200, "erstellt", NextTerminId(db))

\* vehicles.py: PUT /vehicles/{vehicle_id}/tuv
update_vehicle_tuv(u, vehicle_id, tuv_data) ==
  /\ UNCHANGED <<sess, reqs>>
  /\ LET tuv_termin == First(TermineOf(db, vehicle_id)) IN
     IF ~check_write_permission(u)
       THEN resp' = Reply("update_vehicle_tuv", 403, "Organisator oder Admin", 0)
            /\ UNCHANGED db
     ELSE IF vehicle_id \notin Fahrzeuge
       THEN resp' = Reply("update_vehicle_tuv", 404, "Fahrzeug nicht gefunden", 0)
            /\ UNCHANGED db
     ELSE IF tuv_termin = 0
       THEN resp' = Reply("update_vehicle_tuv", 404, "TUeV-Daten nicht gefunden", 0)
            /\ UNCHANGED db
     ELSE /\ db' = [db EXCEPT !.tuv_termine[tuv_termin] =
                      WithFields(@, tuv_data, {"ablauf_datum"})]
          /\ resp' = Reply("update_vehicle_tuv", 200, "", tuv_termin)

\* vehicles.py: DELETE /vehicles/{vehicle_id}/tuv
delete_vehicle_tuv(u, vehicle_id) ==
  /\ UNCHANGED <<sess, reqs>>
  /\ LET tuv_termin == First(TermineOf(db, vehicle_id)) IN
     IF ~check_write_permission(u)
       THEN resp' = Reply("delete_vehicle_tuv", 403, "Organisator oder Admin", 0)
            /\ UNCHANGED db
     ELSE IF vehicle_id \notin Fahrzeuge
       THEN resp' = Reply("delete_vehicle_tuv", 404, "Fahrzeug nicht gefunden", 0)
            /\ UNCHANGED db
     ELSE IF tuv_termin = 0
       THEN resp' = Reply("delete_vehicle_tuv", 404, "TUeV-Daten nicht gefunden", 0)
            /\ UNCHANGED db
     ELSE /\ db' = [db EXCEPT !.tuv_termine = [t \in DOMAIN @ \ {tuv_termin} |-> @[t]]]
          /\ resp' = Reply("delete_vehicle_tuv", 200, "", tuv_termin)

\* time passes between two requests
ClockAdvances ==
  /\ db.now < MaxClock
  /\ db' = [db EXCEPT !.now = @ + 1]
  /\ UNCHANGED <<sess, resp, reqs>>

\* ablauf_datum in half-days: passed, and 31 days ahead of the first
\* reading of the clock (30 days ahead of the next)
TuvTerminCreate ==
  [fahrzeug_id : FahrzeugIds, ablauf_datum : {-1, 62}]

TuvTerminUpdate ==
  { [fahrzeug_id |-> f, ablauf_datum |-> d] :
      f \in {<<>>} \cup { <<v>> : v \in FahrzeugIds },
      d \in {<<>>} \cup { <<a>> : a \in {-1, 62} } }

NextTermine ==
  \/ \E u \in Benutzer, d \in TuvTerminCreate : create_deadline(u, d)
  \/ \E u \in Benutzer, t \in 1..MaxTermine, d \in TuvTerminUpdate : update_deadline(u, t, d)
  \/ \E u \in Benutzer, t \in 1..MaxTermine : delete_deadline(u, t)
  \/ \E v \in FahrzeugIds : get_deadline_for_vehicle(v)
  \/ \E u \in Benutzer, v \in FahrzeugIds, d \in TuvTerminCreate : create_vehicle_tuv(u, v, d)
  \/ \E u \in Benutzer, v \in FahrzeugIds, d \in TuvTerminUpdate : update_vehicle_tuv(u, v, d)
  \/ \E u \in Benutzer, v \in FahrzeugIds : delete_vehicle_tuv(u, v)
  \/ ClockAdvances

SpecTermine == InitTermine /\ [][NextTermine]_vars

\* ------------------------------------- requests that run concurrently
\* FastAPI runs the handlers in a thread pool, each with its own session;
\* a handler's queries and its commit are separate statements on the store.

\* start_checklist_run up to the existing_run query
start_checklist_run_query(i, c, v, u) ==
  /\ ~sess.active
  /\ reqs[i].pc = "idle"
  /\ LET q == start_checklist_run_check(db, c, v) IN
     reqs' = [reqs EXCEPT ![i] =
                [pc |-> IF q.code # 0 THEN "done" ELSE "write", kind |-> "start",
                 c |-> c, v |-> v, u |-> u, reply |-> q]]
  /\ UNCHANGED <<db, sess, resp>>

\* start_checklist_run from db.add(db_run) on
start_checklist_run_commit(i) ==
  /\ reqs[i].pc = "write"
  /\ reqs[i].kind = "start"
  /\ Len(db.ausfuehrungen) < MaxRuns
  /\ db' = InsertRun(db, reqs[i].c, reqs[i].v, reqs[i].u)
  /\ reqs' = [reqs EXCEPT ![i].pc = "done",
                          ![i].reply = Reply("start", 201, "", Len(db.ausfuehrungen) + 1)]
  /\ UNCHANGED <<sess, resp>>

\* record_item_result up to the existing_result query
record_item_result_query(i, r, p, u) ==
  /\ ~sess.active
  /\ reqs[i].pc = "idle"
  /\ LET q == record_item_result_check(db, r, p, u) IN
     reqs' = [reqs EXCEPT ![i] =
                [pc |-> IF q.code # 0 THEN "done" ELSE "write", kind |-> "record",
                 r |-> r, p |-> p, u |-> u, reply |-> q,
                 loaded |-> IF q.code = 0 /\ q.id # 0 THEN db.ergebnisse[q.id] ELSE <<>>]]
  /\ UNCHANGED <<db, sess, resp>>

\* record_item_result from the branch on existing_result on
record_item_result_commit(i) ==
  /\ reqs[i].pc = "write"
  /\ reqs[i].kind = "record"
  /\ reqs[i].reply.id # 0 \/ Len(db.ergebnisse) < MaxResults
  /\ db' = record_item_result_write(db, reqs[i].reply.id, reqs[i].loaded,
                                    reqs[i].r, reqs[i].p)
  /\ reqs' = [reqs EXCEPT ![i].pc = "done",
                          ![i].reply = Reply("record", 201, "",
                              IF reqs[i].reply.id # 0 THEN reqs[i].reply.id
                              ELSE Len(db.ergebnisse) + 1)]
  /\ UNCHANGED <<sess, resp>>

\* ------------------------------------------- sync batches in flight
\* push_actions with a batch of one create_checklist_run, up to the
\* existing_run query: rows another session has not committed are not seen
push_actions_query(i, u, a) ==
  /\ ~sess.active
  /\ reqs[i].pc = "idle"
  /\ LET session == [active |-> TRUE, user |-> u, tx |-> db, dirty |-> {},
                     pending |-> <<>>, broken |-> FALSE, processed |-> 0,
                     failed |-> 0, errors |-> <<>>, result |-> Fail(""),
                     acked |-> {}]
         out == process_sync_action(session, db, a)
     IN
     reqs' = [reqs EXCEPT ![i] =
                [pc |-> IF out.s.tx # db THEN "write" ELSE "done", kind |-> "sync",
                 a |-> a, u |-> u, reply |-> out.result]]
  /\ UNCHANGED <<db, sess, resp>>

\* the same batch from db.add(new_run) to db.commit()
push_actions_commit(i) ==
  /\ reqs[i].pc = "write"
  /\ reqs[i].kind = "sync"
  /\ Len(db.ausfuehrungen) < MaxRuns
  /\ db' = InsertRun(db, reqs[i].a.data.checklist_id, reqs[i].a.data.fahrzeug_id,
                     reqs[i].u)
  /\ reqs' = [reqs EXCEPT ![i].pc = "done",
                          ![i].reply = Ok(Len(db.ausfuehrungen) + 1, "")]
  /\ UNCHANGED <<sess, resp>>

\* the responses are sent; the workers take the next requests
requests_return ==
  /\ \E i \in DOMAIN reqs : reqs[i].pc = "done"
  /\ \A i \in DOMAIN reqs : reqs[i].pc # "write"
  /\ reqs' = [i \in DOMAIN reqs |-> Idle]
  /\ UNCHANGED <<db, sess, resp>>

ConcPayloads ==
  [item_id : {1}, status : {"ok", "fehler"}, kommentar : {"k"}, wert : {<<>>}]

NextConc ==
  \/ \E i \in DOMAIN reqs, u \in Benutzer : start_checklist_run_query(i, 1, 1, u)
  \/ \E i \in DOMAIN reqs : start_checklist_run_commit(i)
  \/ \E i \in DOMAIN reqs, r \in {1, 2}, p \in ConcPayloads, u \in Benutzer :
       record_item_result_query(i, r, p, u)
  \/ \E i \in DOMAIN reqs : record_item_result_commit(i)
  \/ \E i \in DOMAIN reqs, u \in Benutzer, a \in CreateRunActions({1}, {1}) :
       push_actions_query(i, u, a)
  \/ \E i \in DOMAIN reqs : push_actions_commit(i)
  \/ \E u \in Benutzer : complete_checklist_run(1, u)
  \/ requests_return

SpecConc == Init /\ [][NextConc]_vars

\* ============================================================ claims
Pairs == ChecklistIds \X Fahrzeuge

\* C1: after any sequence of direct starts, sync create_checklist_run,
\* complete and sync complete_checklist_run, every (checklist, vehicle)
\* pair has at most one started execution, in the store and in the open
\* transaction of a batch; a direct start adds an execution only for a pair
\* that has no started execution, and a refused start leaves the store as
\* it was.
C1_OneActiveRunPerPair ==
  /\ [](\A pr \in Pairs :
          /\ Cardinality(ActiveRuns(db, pr[1], pr[2])) <= 1
          /\ sess.active => Cardinality(ActiveRuns(sess.tx, pr[1], pr[2])) <= 1)
  /\ [][(~sess.active /\ Len(db'.ausfuehrungen) # Len(db.ausfuehrungen))
          => LET new == Len(db'.ausfuehrungen)
                 run == db'.ausfuehrungen[new]
             IN /\ new = Len(db.ausfuehrungen) + 1
                /\ ActiveRuns(db, run.checkliste_id, run.fahrzeug_id) = {}
                /\ resp'.code = 201]_vars
  /\ [][(~sess.active /\ resp'.op \in {"start", "start_for_vehicle"} /\ resp'.code # 201)
          => db' = db]_vars

\* a start was refused for a pair that holds one started and one completed run
C1_Witness ==
  /\ resp.op \in {"start", "start_for_vehicle"}
  /\ resp.code = 400
  /\ resp.detail = "Aktive Durchfuehrung fuer diese Kombination bereits vorhanden"
  /\ \E pr \in Pairs :
       /\ Cardinality(ActiveRuns(db, pr[1], pr[2])) = 1
       /\ \E r \in Ids(db.ausfuehrungen) :
            /\ db.ausfuehrungen[r].checkliste_id = pr[1]
            /\ db.ausfuehrungen[r].fahrzeug_id = pr[2]
            /\ db.ausfuehrungen[r].status = "completed"

\* C2: when two start requests for the same pair have both finished and
\* at least one of them found the pair free, the pair has exactly one
\* started execution and exactly one of the two requests was refused
\* with the active-run conflict.
C2_ConcurrentStartsExclusive ==
  (/\ \A i \in DOMAIN reqs : reqs[i].pc = "done" /\ reqs[i].kind = "start"
   /\ reqs[1].c = reqs[2].c
   /\ reqs[1].v = reqs[2].v
   /\ \E i \in DOMAIN reqs : reqs[i].reply.code = 201)
    => /\ Cardinality(ActiveRuns(db, reqs[1].c, reqs[1].v)) = 1
       /\ Cardinality({ i \in DOMAIN reqs :
                          /\ reqs[i].reply.code = 400
                          /\ reqs[i].reply.detail = "Aktive Durchfuehrung fuer diese Kombination bereits vorhanden" }) = 1

\* the result rows of run r, each with its id
ResultsOfRun(store, r) ==
  { <<e, store.ergebnisse[e]>> : e \in { x \in Ids(store.ergebnisse) :
                                          store.ergebnisse[x].ausfuehrung_id = r } }

\* C3: once an execution is completed no step creates or modifies one of
\* its item results, and every submission against it (record_item_result,
\* create_enhanced_item_result, sync update_item_result) is refused.
C3_NoResultChangeAfterCompletion ==
  /\ [][\A r \in Ids(db.ausfuehrungen) :
          db.ausfuehrungen[r].status = "completed"
            => ResultsOfRun(db', r) = ResultsOfRun(db, r)]_vars
  /\ [][\A r \in Ids(db.ausfuehrungen), p \in Payloads, u \in Benutzer :
          (/\ db.ausfuehrungen[r].status = "completed"
           /\ record_item_result(r, p, u) \/ create_enhanced_item_result(r, p, u))
            => resp'.code >= 400]_vars
  /\ [][\A a \in ResultActions :
          (/\ a.action_type = "update_item_result"
           /\ a.data.run_id \in Ids(db.ausfuehrungen)
           /\ db.ausfuehrungen[a.data.run_id].status = "completed"
           /\ push_actions_step(a, MaxResultBatch))
            => ~sess'.result.success]_vars

\* C4: after any sequence of result submissions each (execution, item)
\* pair has at most one result row, in the store and in the open
\* transaction of a batch; an accepted submission for a pair that has a
\* row rewrites that row and adds none, and one for a pair without a row
\* adds exactly one.
C4_OneResultPerPair ==
  /\ [](\A r \in RunIds, i \in ItemIds :
          /\ Cardinality(ResultRows(db, r, i)) <= 1
          /\ sess.active => Cardinality(ResultRows(sess.tx, r, i)) <= 1)
  /\ [][(~sess.active /\ resp'.op \in {"record", "enhanced"} /\ resp'.code < 400)
          => LET row == db'.ergebnisse[resp'.id]
                 before == ResultRows(db, row.ausfuehrung_id, row.item_id)
             IN /\ ResultRows(db', row.ausfuehrung_id, row.item_id) = {resp'.id}
                /\ IF before # {}
                     THEN before = {resp'.id} /\ Len(db'.ergebnisse) = Len(db.ergebnisse)
                     ELSE Len(db'.ergebnisse) = Len(db.ergebnisse) + 1]_vars
  /\ [][(sess.active /\ sess'.active /\ sess'.tx.ergebnisse # sess.tx.ergebnisse)
          => LET id == sess'.result.resource_id
                 row == sess'.tx.ergebnisse[id]
                 before == ResultRows(sess.tx, row.ausfuehrung_id, row.item_id)
             IN /\ sess'.result.success
                /\ ResultRows(sess'.tx, row.ausfuehrung_id, row.item_id) = {id}
                /\ IF before # {}
                     THEN before = {id} /\ Len(sess'.tx.ergebnisse) = Len(sess.tx.ergebnisse)
                     ELSE Len(sess'.tx.ergebnisse) = Len(sess.tx.ergebnisse) + 1]_vars

\* a batch has rewritten a row that was stored before the batch, and the
\* transaction holds as many rows as the store
C4_Witness ==
  /\ sess.active
  /\ sess.result.success
  /\ Len(sess.tx.ergebnisse) = Len(db.ergebnisse)
  /\ \E e \in Ids(db.ergebnisse) : sess.tx.ergebnisse[e] # db.ergebnisse[e]

\* C5: when two result submissions for the same (execution, item) pair
\* have both finished, the pair has at most one result row.
C5_ConcurrentSubmissionsOneRow ==
  (/\ \A i \in DOMAIN reqs : reqs[i].pc = "done" /\ reqs[i].kind = "record"
   /\ reqs[1].r = reqs[2].r
   /\ reqs[1].p.item_id = reqs[2].p.item_id)
    => Cardinality(ResultRows(db, reqs[1].r, reqs[1].p.item_id)) <= 1

\* the effect of an acknowledged action, looked up in a store
EffectStored(store, ack) ==
  IF ack.action_type = "create_checklist_run"
    THEN /\ ack.resource_id \in Ids(store.ausfuehrungen)
  ELSE IF ack.action_type = "complete_checklist_run"
    THEN /\ ack.resource_id \in Ids(store.ausfuehrungen)
         /\ store.ausfuehrungen[ack.resource_id].status = "completed"
  ELSE IF ack.action_type = "update_item_result"
    THEN ack.resource_id \in Ids(store.ergebnisse)
  ELSE ack.resource_id \in Ids(store.checklisten)

\* the step that ends a batch
BatchEnds == sess.active /\ ~sess'.active

\* C6: when a batch ends with at least one action reported as successful,
\* the response counts those actions as processed and the effect of each
\* of them is in the store.
C6_SuccessfulActionsCommitted ==
  [][(BatchEnds /\ sess.processed > 0)
       => /\ resp'.processed = sess.processed
          /\ resp'.failed = sess.failed
          /\ \A ack \in sess.acked : EffectStored(db', ack)]_vars

\* C7: when a batch ends without a successful action, the store is what it
\* was before the batch and the response reports processed = 0.
C7_FailedBatchRolledBack ==
  [][(BatchEnds /\ sess.processed = 0)
       => /\ db' = db
          /\ resp'.processed = 0
          /\ resp'.failed = sess.failed]_vars

\* a batch whose only action failed after flushing a checklist row has
\* ended, and the store holds the seeded checklists only
C7_Witness ==
  /\ resp.op = "sync"
  /\ resp.code = 200
  /\ resp.processed = 0
  /\ resp.failed = 1
  /\ resp.errors[1].error = "AttributeError"
  /\ ~sess.active
  /\ Len(db.checklisten) = Len(SeedChecklisten)

\* C8: a sync create_checklist_run for a pair whose started execution is
\* stored and not completed in the batch reports success with the id of
\* that execution and adds no execution.
C8_CreateRunIdempotent ==
  [][\A a \in CreateRunActions(ChecklistIds, Fahrzeuge) :
       (/\ push_actions_step(a, MaxBatch)
        /\ ActiveRuns(db, a.data.checklist_id, a.data.fahrzeug_id) \ sess.dirty # {})
         => /\ sess'.result.success
            /\ sess'.result.resource_id
                 \in ActiveRuns(db, a.data.checklist_id, a.data.fahrzeug_id)
            /\ Len(sess'.tx.ausfuehrungen) = Len(sess.tx.ausfuehrungen)]_vars

\* C9: a sync update_item_result that succeeded leaves one row for its
\* pair with the submitted status and comment, and applying the same
\* action again succeeds on the same row and changes nothing.
C9_UpdateTwiceSameAsOnce ==
  [][\A a \in ResultActions :
       (/\ sess.active /\ sess'.active
        /\ sess'.processed = sess.processed + 1
        /\ a.action_type = "update_item_result"
        /\ push_actions_step(a, MaxResultBatch))
         => LET again == process_sync_action(sess', db, a)
                row == sess'.result.resource_id
            IN /\ ResultRows(sess'.tx, a.data.run_id, a.data.item_id) = {row}
               /\ sess'.tx.ergebnisse[row].status = a.data.status
               /\ sess'.tx.ergebnisse[row].kommentar = a.data.kommentar
               /\ again.result = sess'.result
               /\ again.s.tx = sess'.tx
               /\ again.s.dirty = sess'.dirty]_vars

\* two update_item_result actions of one batch succeeded on the one row
\* that the first of them created
C9_Witness ==
  /\ sess.active
  /\ sess.processed = 2
  /\ sess.failed = 0
  /\ Len(db.ergebnisse) = 0
  /\ Len(sess.tx.ergebnisse) = 1
  /\ sess.acked = {[action_type |-> "update_item_result", resource_id |-> 1]}

\* C10: when a batch ends, every checklist and every item that the commit
\* adds to the store belongs to a create_checklist action that was
\* reported as successful.
C10_FailedActionLeavesNothing ==
  [][BatchEnds
       => /\ \A k \in Ids(db'.checklisten) \ Ids(db.checklisten) :
               [action_type |-> "create_checklist", resource_id |-> k] \in sess.acked
          /\ \A i \in Ids(db'.items) \ Ids(db.items) :
               [action_type |-> "create_checklist",
                resource_id |-> db'.items[i].checkliste_id] \in sess.acked]_vars

\* C11: a received batch always ends with a response; while it is being
\* processed the counters account for exactly the actions before the loop
\* position, every failure entry belongs to the action at its position and
\* the entries are in submission order; an iteration either counts a
\* success or records the error of its action; the loop is left only when
\* every action has been visited, and the response accounts for all of them.
C11_BatchLoopCompletes ==
  /\ sess.active ~> (~sess.active /\ resp.op = "sync" /\ resp.code = 200)
  /\ [](sess.active =>
          /\ sess.next \in 1..(Len(sess.actions) + 1)
          /\ sess.processed + sess.failed = sess.next - 1
          /\ Len(sess.errors) = sess.failed
          /\ \A k \in DOMAIN sess.errors :
               /\ sess.errors[k].timestamp \in 1..(sess.next - 1)
               /\ sess.errors[k].action_type
                    = sess.actions[sess.errors[k].timestamp].action_type
               /\ \A j \in 1..(k - 1) :
                    sess.errors[j].timestamp < sess.errors[k].timestamp)
  /\ [][(sess.active /\ sess'.active)
          => /\ sess'.next = sess.next + 1
             /\ \/ /\ sess'.result.success
                   /\ sess'.processed = sess.processed + 1
                   /\ sess'.errors = sess.errors
                \/ /\ ~sess'.result.success
                   /\ sess'.failed = sess.failed + 1
                   /\ sess'.errors[Len(sess'.errors)] =
                        [action_type |-> sess.actions[sess.next].action_type,
                         error |-> sess'.result.error,
                         timestamp |-> sess.next]]_vars
  /\ [][BatchEnds
          => /\ sess.next = Len(sess.actions) + 1
             /\ resp'.processed + resp'.failed = Len(sess.actions)]_vars

\* a batch of two actions that both raised an exception has been answered
C11_Witness ==
  /\ ~sess.active
  /\ resp.op = "sync"
  /\ resp.code = 200
  /\ resp.processed = 0
  /\ resp.failed = 2
  /\ Len(resp.errors) = 2
  /\ resp.errors[1].error = "IntegrityError"
  /\ resp.errors[1].timestamp = 1
  /\ resp.errors[2].error = "PendingRollbackError"
  /\ resp.errors[2].timestamp = 2

\* ids of the result rows that a step of the open session wrote
WrittenRows(before, after) ==
  { e \in Ids(after.ergebnisse) :
      e \notin Ids(before.ergebnisse) \/ before.ergebnisse[e] # after.ergebnisse[e] }

\* C12: a result row of a run is created or modified only on behalf of
\* the run's owner or an organisator or admin: a sync action writes rows
\* only of runs its user may edit, and a direct submission by any other
\* user on a started run is answered 403 and changes nothing.
C12_ResultsOnlyByPermittedUser ==
  /\ [][(sess.active /\ sess'.active)
          => \A e \in WrittenRows(sess.tx, sess'.tx) :
               MayEditRun(RunObject(sess, sess'.tx.ergebnisse[e].ausfuehrung_id), sess.user)]_vars
  /\ [][\A r \in Ids(db.ausfuehrungen), p \in Payloads, u \in Benutzer :
          (/\ ~sess.active
           /\ db.ausfuehrungen[r].status = "started"
           /\ ~MayEditRun(db.ausfuehrungen[r], u)
           /\ record_item_result(r, p, u) \/ create_enhanced_item_result(r, p, u))
            => resp'.code = 403 /\ db' = db]_vars

\* C13: the item of every stored result belongs to the checklist of the
\* result's run.
C13_ResultItemOfRunChecklist ==
  \A e \in Ids(db.ergebnisse) :
    ItemOfChecklist(db, db.ergebnisse[e].item_id,
                    db.ausfuehrungen[db.ergebnisse[e].ausfuehrung_id].checkliste_id)

\* C14: a direct result submission that is refused (404, 403, 400) leaves
\* the store as it was, and a sync update_item_result that is reported as
\* failed leaves the transaction of its batch as it was.
C14_FailedSubmissionChangesNothing ==
  /\ [][(~sess.active /\ resp'.op \in {"record", "enhanced"} /\ resp'.code >= 400)
          => db' = db]_vars
  /\ [][(sess.active /\ sess'.active /\ sess'.failed = sess.failed + 1)
          => /\ sess'.tx = sess.tx
             /\ sess'.dirty = sess.dirty
             /\ sess'.pending = sess.pending]_vars

\* a submission with a status outside the allowed ones was refused while
\* an earlier result of the same started run is stored
C14_Witness ==
  /\ resp.op = "record"
  /\ resp.code = 400
  /\ resp.detail = "Ungueltiger Status"
  /\ \E e \in Ids(db.ergebnisse) :
       /\ db.ergebnisse[e].status = "ok"
       /\ db.ausfuehrungen[db.ergebnisse[e].ausfuehrung_id].status = "started"

\* the submitted fields of a stored result, as the validation reads them
AsPayload(row) ==
  [item_id |-> row.item_id, status |-> row.status, kommentar |-> row.kommentar,
   wert |-> row.wert]

\* C15: every result row that a step stores, by a direct submission or by
\* the commit of a batch, is accepted by validate_item_result for its item.
C15_StoredResultsValidated ==
  [][\A e \in WrittenRows(db, db') :
       /\ db'.ergebnisse[e].item_id \in Ids(db'.items)
       /\ validate_item_result(db'.items[db'.ergebnisse[e].item_id],
                               AsPayload(db'.ergebnisse[e])) = ""]_vars
\* a call of validate_item_result that has returned
Validated == resp.op = "validate" /\ resp.returned # "pending"

\* C16: validate_item_result rejects every result for an item of type
\* vehicle_info, whatever the item's validation_config and the result's
\* value are.
C16_VehicleInfoAlwaysRejected ==
  (Validated /\ resp.item_type = "vehicle_info") => resp.returned # ""

C16_Witness ==
  /\ Validated /\ resp.item_type = "vehicle_info"
  /\ Configs[resp.config] = [min_value |-> 2, max_value |-> 5]
  /\ Werte[resp.wert] = <<IntWert(2)>>
  /\ resp.returned = "Fahrzeugdaten koennen nicht bearbeitet werden"

\* a rating_1_6 or percentage call whose item carries no bound of its own
DefaultBounds ==
  Configs[resp.config] \in {NoConfig, EmptyConfig}

\* values that are no numbers: the texts "abc" and "", and a dict
NonNumeric ==
  { <<StrWert(<<"a", "b", "c">>)>>, <<StrWert(<<>>)>>,
    <<DictWert({"tuv_platte"})>> }

\* C17: for a rating_1_6 item with the default bounds, an integer value is
\* accepted exactly when it lies in 1..6, an integer outside is rejected as
\* out of range, and a value that is no number is rejected with a reason
\* that differs from the range violation.
C17_RatingDefaultBounds ==
  (Validated /\ resp.item_type = "rating_1_6" /\ DefaultBounds
     /\ Werte[resp.wert] # <<>>) =>
    LET w == Werte[resp.wert][1] IN
    /\ w.kind = "int" =>
         resp.returned = (IF w.n \in 1..6 THEN ""
                          ELSE "Bewertung ausserhalb des Bereichs")
    /\ Werte[resp.wert] \in NonNumeric =>
         resp.returned \notin {"", "Bewertung ausserhalb des Bereichs"}

C17_Witness ==
  /\ Validated /\ resp.item_type = "rating_1_6" /\ DefaultBounds
  /\ Werte[resp.wert] = <<IntWert(7)>>
  /\ resp.returned = "Bewertung ausserhalb des Bereichs"

\* C18: for a percentage item with no bounds in its validation_config, a
\* value is accepted exactly when it lies between 0 and 100, both included.
C18_PercentageDefaultBounds ==
  (Validated /\ resp.item_type = "percentage" /\ DefaultBounds
     /\ Werte[resp.wert] # <<>>) =>
    LET w == Werte[resp.wert][1] IN
    /\ w.kind = "int" => (resp.returned = "" <=> w.n \in 0..100)
    /\ w.kind = "float" => (resp.returned = "" <=> w.halves \in 0..200)

C18_Witness ==
  /\ Validated /\ resp.item_type = "percentage" /\ DefaultBounds
  /\ Werte[resp.wert] = <<IntWert(101)>>
  /\ resp.returned = "Prozentwert ausserhalb des Bereichs"

\* C19: the bounds that a rating_1_6 or percentage item enforces are the
\* bounds of the validation_config it was given, each missing bound taken
\* from the type's default, also for an item created through the
\* item-creation operation.
C19_ExplicitBoundWins ==
  (Validated /\ resp.item_type \in {"rating_1_6", "percentage"}
     /\ Werte[resp.wert] # <<>> /\ Werte[resp.wert][1].kind = "int") =>
    LET given == IF Configs[resp.config] = NoConfig THEN EmptyConfig
                 ELSE Configs[resp.config]
        lowest == IF "min_value" \in DOMAIN given THEN given.min_value
                  ELSE IF resp.item_type = "rating_1_6" THEN 1 ELSE 0
        highest == IF "max_value" \in DOMAIN given THEN given.max_value
                   ELSE IF resp.item_type = "rating_1_6" THEN 6 ELSE 100
    IN resp.returned = "" <=> Werte[resp.wert][1].n \in lowest..highest

\* C20: for an atemschutz item whose validation_config names required
\* fields, a result is rejected when its value lacks one of them; an empty
\* dict and an absent value lack all of them.
C20_AtemschutzRequiredFields ==
  (Validated /\ resp.item_type = "atemschutz"
     /\ Configs[resp.config] = [required_fields |-> AtemschutzFields]
     /\ (Werte[resp.wert] = <<>>
           \/ /\ Werte[resp.wert] # <<>>
              /\ Werte[resp.wert][1].kind = "dict"
              /\ \E field \in Range(AtemschutzFields) :
                   field \notin Werte[resp.wert][1].keys)) =>
    resp.returned # ""

\* a status calculation that has returned
Classified == resp.op = "tuv" /\ resp.via \in {"get_deadline", "get_alerts"}

\* C21 as stated: expired exactly when the expiration lies before now,
\* warning exactly when it lies 0 to 30 days after now, current otherwise.
C21_WarningUpTo30Days ==
  Classified =>
    resp.status = (IF resp.ablauf_datum < resp.now THEN "expired"
                   ELSE IF resp.ablauf_datum - resp.now <= 2 * 30
                     THEN "warning"
                   ELSE "current")

\* C21 amended: expired exactly when the expiration lies before now,
\* warning exactly when it lies at least 0 and less than 31 days after now
\* (a whole-day difference of 0 to 30), current otherwise.
C21_WarningBelow31Days ==
  Classified =>
    resp.status = (IF resp.ablauf_datum < resp.now THEN "expired"
                   ELSE IF resp.ablauf_datum - resp.now < 2 * 31
                     THEN "warning"
                   ELSE "current")

C21_Witness ==
  /\ Classified /\ resp.via = "get_deadline"
  /\ resp.ablauf_datum - resp.now = 2 * 30 + 1
  /\ resp.status = "warning"

\* C22 as stated: the whole-day difference of the status calculation and
\* the reported days-remaining are the difference expiration - now
\* truncated toward zero.
C22_DaysTruncatedTowardZero ==
  LET Truncated(halves) == IF halves >= 0 THEN halves \div 2
                           ELSE 0 - ((0 - halves) \div 2)
  IN
  /\ Classified => resp.days_remaining = Truncated(resp.ablauf_datum - resp.now)
  /\ (Classified /\ resp.via = "get_alerts") =>
       resp.tage_verbleibend = Truncated(resp.ablauf_datum - resp.now_tage)

\* C22 amended: the whole-day difference and the reported days-remaining
\* are the difference expiration - now rounded down to whole days, so an
\* expiration less than one day before now has day difference -1.
C22_DaysRoundedDown ==
  LET Floor(days, halves) == 2 * days <= halves /\ halves < 2 * days + 2
  IN
  /\ Classified =>
       Floor(resp.days_remaining, resp.ablauf_datum - resp.now)
  /\ (Classified /\ resp.via = "get_alerts") =>
       Floor(resp.tage_verbleibend, resp.ablauf_datum - resp.now_tage)

C22_Witness ==
  /\ Classified /\ resp.via = "get_alerts"
  /\ resp.ablauf_datum - resp.now_tage = 0 - 1
  /\ resp.tage_verbleibend = 0 - 1

\* a step of the batch loop that processes the sync action a
SyncStep(a) ==
  /\ sess.active /\ sess'.active
  /\ sess'.processed + sess'.failed = sess.processed + sess.failed + 1
  /\ push_actions_step(a, MaxLifecycleBatch)

CompleteAction(r) ==
  [action_type |-> "complete_checklist_run", data |-> [run_id |-> r]]

\* C23: once a stored execution is completed or cancelled, no operation
\* changes its status or its completion time, and a further complete on
\* it, direct or by sync, fails with "Durchfuehrung ist nicht aktiv".
C23_TerminalStatesStay ==
  [][\A r \in Ids(db.ausfuehrungen) :
       db.ausfuehrungen[r].status \in {"completed", "cancelled"} =>
         /\ db'.ausfuehrungen[r].status = db.ausfuehrungen[r].status
         /\ db'.ausfuehrungen[r].completed_at = db.ausfuehrungen[r].completed_at
         /\ resp'.op = "complete" =>
              \A u \in Benutzer :
                complete_checklist_run(r, u) =>
                  resp'.detail = "Durchfuehrung ist nicht aktiv"
         /\ SyncStep(CompleteAction(r)) =>
              sess'.result.error = "Durchfuehrung ist nicht aktiv"]_vars

\* C24: a stored execution goes from started to completed only by a
\* complete of its owner or of an organisator or admin, direct or by sync,
\* and then carries a completion time; a complete by anyone else is
\* refused for lack of permission and leaves the execution as it was.
C24_CompletedOnlyByPermittedUser ==
  [][\A r \in Ids(db.ausfuehrungen) :
       LET run == db.ausfuehrungen[r] IN
       run.status = "started" =>
         /\ db'.ausfuehrungen[r].status # "started" =>
              /\ db'.ausfuehrungen[r].status = "completed"
              /\ db'.ausfuehrungen[r].completed_at # NoValue
              /\ \/ /\ ~sess.active
                    /\ resp' = Reply("complete", 200, "", r)
                    /\ \E u \in Benutzer :
                         MayEditRun(run, u) /\ complete_checklist_run(r, u)
                 \/ /\ sess.active /\ ~sess'.active
                    /\ MayEditRun(run, sess.user)
                    /\ [action_type |-> "complete_checklist_run",
                        resource_id |-> r] \in sess.acked
         /\ db'.ausfuehrungen[r].status = "started" =>
              db'.ausfuehrungen[r].completed_at = NoValue
         /\ resp'.op = "complete" =>
              \A u \in Benutzer :
                (~MayEditRun(run, u) /\ complete_checklist_run(r, u)) =>
                  resp'.code = 403 /\ db' = db
         /\ (sess.active /\ ~MayEditRun(run, sess.user)
               /\ SyncStep(CompleteAction(r))) =>
              /\ sess'.result.error = "Keine Berechtigung"
              /\ sess'.tx = sess.tx /\ sess'.dirty = sess.dirty]_vars

C24_Witness ==
  /\ resp = Reply("complete", 403, "Keine Berechtigung", 0)
  /\ \E r1, r2 \in Ids(db.ausfuehrungen) :
       /\ db.ausfuehrungen[r1].status = "completed"
       /\ db.ausfuehrungen[r1].completed_at # NoValue
       /\ db.ausfuehrungen[r1].benutzer_id = 1
       /\ db.ausfuehrungen[r2].status = "started"
       /\ db.ausfuehrungen[r2].benutzer_id = 2

\* C25: a complete on an execution that is not started fails with
\* "Durchfuehrung ist nicht aktiv" for every acting user, also for one who
\* is neither owner nor organisator nor admin, direct and by sync.
C25_NotStartedReportedFirst ==
  [][/\ resp'.op = "complete" =>
          \A r \in Ids(db.ausfuehrungen), u \in Benutzer :
            (db.ausfuehrungen[r].status # "started"
               /\ complete_checklist_run(r, u)) => resp'.code = 400
     /\ sess.active =>
          \A r \in Ids(sess.tx.ausfuehrungen) :
            (RunObject(sess, r).status # "started"
               /\ SyncStep(CompleteAction(r))) =>
              sess'.result.error = "Durchfuehrung ist nicht aktiv"]_vars

\* C26: no step stores an execution whose checklist belongs to another
\* vehicle group than its vehicle, whichever entry point started it
\* (direct start, vehicle-scoped start, sync create_checklist_run).
C26_NoCrossGroupExecution ==
  [][\A r \in Ids(db'.ausfuehrungen) \ Ids(db.ausfuehrungen) :
       LET run == db'.ausfuehrungen[r] IN
       db'.checklisten[run.checkliste_id].fahrzeuggruppe_id
         = FahrzeugGruppeVon[run.fahrzeug_id]]_vars

\* C27: no stored execution belongs to a checklist whose template flag is
\* true, whichever entry point started it.
C27_NoExecutionOfTemplate ==
  \A r \in Ids(db.ausfuehrungen) :
    db.checklisten[db.ausfuehrungen[r].checkliste_id].template = FALSE

\* C28: every stored checklist whose template flag is true was created by
\* a user with role organisator or admin, whichever operation created it
\* (enhanced template creation, plain creation with template = true, sync
\* create_checklist).
C28_TemplatesOnlyByOrganisatorOrAdmin ==
  \A c \in Ids(db.checklisten) :
    db.checklisten[c].template =>
      Rolle[db.checklisten[c].ersteller_id] \in {"organisator", "admin"}

\* C29: after every step each stored checklist item has one of the eight
\* registry kinds as its item_type, and a creation that is refused leaves
\* checklists and items as they were.
C29_ItemTypeIsRegistryKind ==
  [][/\ \A i \in Ids(db'.items) : db'.items[i].item_type \in ItemTypes
     /\ (resp'.op \in {"create_item", "create_checklist", "create_template"}
           /\ resp'.code \in {400, 422}) => db' = db]_vars

\* C30: the definition of a checklist item of kind vehicle_info changes
\* only by an update of a user with role admin; a well-formed update by an
\* organisator is refused with 403 and leaves the item unchanged.
C30_VehicleInfoOnlyByAdmin ==
  [][\A i \in Ids(db.items) :
       db.items[i].item_type = "vehicle_info" =>
         /\ db'.items[i] # db.items[i] =>
              resp'.op = "update_item" /\ Rolle[resp'.user] = "admin"
         /\ (resp'.op = "update_item" /\ resp'.id = i /\ resp'.code # 422
               /\ Rolle[resp'.user] = "organisator") =>
              resp'.code = 403 /\ db' = db]_vars

\* C31: an update of a checklist item succeeds only for a user whose role
\* is one of the item's editable_roles, organisator and admin standing in
\* for roles that are unset or empty; a well-formed update of a stored
\* item by any other user is refused with 403 and changes nothing.
C31_UpdateOnlyByEditableRole ==
  [][(resp'.op = "update_item" /\ resp'.id \in Ids(db.items)) =>
       LET roles == db.items[resp'.id].editable_roles
           allowed == IF roles = {} THEN {"organisator", "admin"} ELSE roles
       IN
       /\ resp'.code = 200 => Rolle[resp'.user] \in allowed
       /\ (Rolle[resp'.user] \notin allowed /\ resp'.code # 422) =>
            resp'.code = 403 /\ db' = db]_vars

C31_Witness ==
  /\ resp.op = "update_item" /\ resp.code = 403
  /\ Rolle[resp.user] = "organisator"
  /\ resp.id \in Ids(db.items)
  /\ db.items[resp.id].editable_roles = {"admin"}

\* C32: a resubmission overwrites the fields it gives and keeps the stored
\* value of every field it leaves out: no submission here carries an
\* explicit null, so the comment of a stored item result never turns from
\* a text to None.
C32_UnspecifiedFieldsKept ==
  [][\A k \in DOMAIN db.ergebnisse :
       (k \in DOMAIN db'.ergebnisse /\ db.ergebnisse[k].kommentar # NoValue) =>
         db'.ergebnisse[k].kommentar # NoValue]_vars

\* C33: every stored TuvTermin has a status among current, warning and
\* expired, and a request that stores a new TuvTermin or changes the
\* ablauf_datum of one leaves it with the status calculate_tuv_status
\* gives for the stored date.
C33_StoredStatusCalculated ==
  [][\A t \in DOMAIN db'.tuv_termine :
       LET termin == db'.tuv_termine[t] IN
       /\ termin.status \in {"current", "warning", "expired"}
       /\ (t \notin DOMAIN db.tuv_termine
             \/ db.tuv_termine[t].ablauf_datum # termin.ablauf_datum) =>
            termin.status = calculate_tuv_status(termin.ablauf_datum, db'.now)]_vars

\* C34: no vehicle has more than one stored TuvTermin, whatever was
\* created, updated or deleted.
C34_OneTerminPerVehicle ==
  \A t1, t2 \in DOMAIN db.tuv_termine :
    db.tuv_termine[t1].fahrzeug_id = db.tuv_termine[t2].fahrzeug_id => t1 = t2

C36_BatchResponseAccounts ==
  [][(sess.active /\ ~sess'.active /\ resp'.op = "sync") =>
       /\ resp'.processed + resp'.failed = Len(sess.actions)
       /\ Len(resp'.errors) = resp'.failed
       /\ \A k \in DOMAIN resp'.errors :
            /\ DOMAIN resp'.errors[k] = {"action_type", "error", "timestamp"}
            /\ resp'.errors[k].timestamp \in DOMAIN sess.actions
            /\ resp'.errors[k].action_type =
                 sess.actions[resp'.errors[k].timestamp].action_type
            /\ \A j \in 1..(k - 1) :
                 resp'.errors[j].timestamp < resp'.errors[k].timestamp]_vars

\* C37: every stored item result has the status ok, fehler or
\* nicht_pruefbar, whichever entry point stored it.
C37_StoredStatusAllowed ==
  \A e \in Ids(db.ergebnisse) :
    db.ergebnisse[e].status \in {"ok", "fehler", "nicht_pruefbar"}

\* C38: when a sync create_checklist_run reports success, the id it reports
\* is, at the end of that action, a started execution of the requested
\* checklist and vehicle, also when an earlier action of the batch has
\* completed the previous execution of the pair.
C38_CreateRunReportsStartedRun ==
  [][(sess.active /\ sess'.active /\ sess'.result.success) =>
       \A a \in CreateRunActions(ChecklistIds, FahrzeugIds) :
         SyncStep(a) =>
           LET r == sess'.result.resource_id IN
           /\ r \in Ids(sess'.tx.ausfuehrungen)
           /\ RunObject(sess', r).status = "started"
           /\ RunObject(sess', r).checkliste_id = a.data.checklist_id
           /\ RunObject(sess', r).fahrzeug_id = a.data.fahrzeug_id]_vars

\* C39: when a submission has read its execution as started and the
\* completion of that execution is committed before the submission writes,
\* the submission writes nothing: no step creates or changes an item
\* result of an execution that is stored as completed.
C39_NoWriteAfterCommittedCompletion ==
  [][\A e \in WrittenRows(db, db') :
       db.ausfuehrungen[db'.ergebnisse[e].ausfuehrung_id].status = "started"]_vars

\* C40: when two sync batches in flight at the same time each hold a
\* create_checklist_run for the same checklist and vehicle and both have
\* committed with success, the pair has exactly one started execution and
\* both batches were given the same id.
C40_ConcurrentSyncCreatesOneRun ==
  (/\ \A i \in DOMAIN reqs :
        reqs[i].pc = "done" /\ reqs[i].kind = "sync" /\ reqs[i].reply.success
   /\ reqs[1].a = reqs[2].a) =>
    /\ Cardinality(ActiveRuns(db, reqs[1].a.data.checklist_id,
                                  reqs[1].a.data.fahrzeug_id)) = 1
    /\ reqs[1].reply.resource_id = reqs[2].reply.resource_id
====
